---- MODULE Spec2Model ----
(***************************************************************************)
(* Model of the market feed of srivastavanik/DATN:                         *)
(*   - WebSocketManager (src/shared/schema.ts, lines 135-333): the         *)
(*     subscriber set, the last-snapshot map, the bounded price history    *)
(*     and the one-second market timer;                                    *)
(*   - AIAnalysisService (src/server/services/aiAnalysis.ts): the          *)
(*     recommendation cache in front of the external oracle;               *)
(*   - TechnicalAnalysisService (src/unnamed/part_003): pattern detection  *)
(*     and volatility metrics over a price history.                        *)
(*                                                                         *)
(* Execution model.  The server is one Node.js event loop: a callback      *)
(* runs alone until it awaits external I/O.  `running` names the timer     *)
(* callback that currently holds the loop (0: the loop is idle); the only  *)
(* await of a market tick that leaves the loop is the oracle request.      *)
(* Time is Date.now() in milliseconds; it advances by the timer period     *)
(* each time the market timer fires.  Prices are integers; JSON text is    *)
(* represented by the record it encodes.  An optional value is a sequence  *)
(* of length 0 or 1.                                                       *)
(***************************************************************************)
EXTENDS Integers, Sequences, FiniteSets, TLC

\* ------------------------------------------------------------------ bounds
MaxTicks == 2          \* timer callbacks started in one behaviour of Spec
MaxFeedTicks == 3      \* timer callbacks started in one behaviour of FeedSpec
MaxAppends == 150      \* appends per symbol in the history specification
MaxWarmTicks == 4      \* timer callbacks started in one behaviour of WarmSpec
MaxPortfolioTicks == 2 \* portfolio timer callbacks in one behaviour
MaxCleanups == 2       \* cleanup() calls in one behaviour
MaxInputLen == 32      \* longest price list handed to the analysis on its own
MaxShortLen == 6       \* AnalysisSpec: every list over ShortPrices up to here

\* ------------------------------------------------------- program constants
CACHE_DURATION == 10000       \* milliseconds
HISTORY_CAPACITY == 100
TICK_PERIOD == 1000           \* milliseconds
VOLATILITY_INVERSE == 1000    \* volatility 0.001 = 1 / 1000
MS_PER_SECOND == 1000
PATTERN_WINDOW == 30
VOLATILITY_WINDOW == 30
KERNEL_SIZE == 5

SymbolOrder == <<"BTC/USD", "ETH/USD">>
Symbols == {SymbolOrder[k] : k \in 1..Len(SymbolOrder)}
InitialBasePrice == [s \in Symbols |-> IF s = "BTC/USD" THEN 95000 ELSE 3200]

\* (Math.random() - 0.5) * 2 lies in [-1, 1).  No branch of the program
\* depends on the value; one non-zero factor makes every step of the walk a
\* new price, so that a repeated, lost or reordered price shows.
RandomFactors == {1}
\* Math.random() * 1000 + 5000
Volumes == {5000}

Channels == {"ws1", "ws2"}
ChannelRank(c) == IF c = "ws1" THEN 1 ELSE 2

DefaultResult ==
    [recommendation |-> "hold", confidence |-> 50,
     reasoning |-> <<"Technical analysis system is calibrating">>,
     marketSentiment |-> "neutral", riskLevel |-> "medium"]

\* what a well-formed oracle answer parses to
OracleResults ==
    {[recommendation |-> "buy", confidence |-> 80,
      reasoning |-> <<"uptrend">>,
      marketSentiment |-> "bullish", riskLevel |-> "low"]}

\* the ways one oracle request can end: a parsable answer, a rejected
\* request (network, quota, timeout), or an answer JSON.parse rejects
OracleOutcomes ==
    {[kind |-> "ok", analysis |-> r] : r \in OracleResults}
    \cup {[kind |-> "throw", analysis |-> DefaultResult],
          [kind |-> "unparsable", analysis |-> DefaultResult]}

VARIABLES
    \* the program's state
    now,             \* Date.now()
    basePrice,       \* startSimulatedDataFeed's basePrice object
    priceHistory,    \* WebSocketManager.priceHistory
    analysisCache,   \* AIAnalysisService.analysisCache
    lastMarketData,  \* WebSocketManager.lastMarketData
    clients,         \* WebSocketManager.clients
    tick,            \* per timer callback: its position and locals
    running,         \* the callback holding the event loop, 0 if none
    \* the sockets, as the environment drives them
    readyState,      \* "NONE" (not yet accepted), "OPEN", "CLOSING", "CLOSED"
    faulty,          \* sockets whose send() throws
    stalled,         \* sockets whose peer has stopped reading
    \* history variables: what has happened, for the properties to refer to
    wire,            \* the sends the step just taken made: <<[to, data], ...>>
    handled,         \* sockets whose "close" or "error" handler has run
    oracleCalls,     \* per symbol: number of oracle requests issued
    fallbackAt,      \* per symbol: when the fallback was last stored
    skipped,         \* <<tick, symbol>> iterations ended by the tick's catch
    lastBroadcast,   \* per symbol: the last message handed to broadcast()
    appended,        \* per symbol: every price ever appended
    published,       \* <<tick, symbol>> iterations that reached broadcast()
    hung,            \* callbacks whose oracle request never ends
    \* the two timers of WebSocketManager and its shutdown
    simulatedDataInterval,    \* "set" or "cleared"
    portfolioUpdateInterval,  \* "null", "set" or "cleared"
    portfolioPc,     \* startPortfolioTracking: "awaiting" its first
                     \* valuation, then "tracking"
    portfolioTicks,  \* portfolio timer callbacks started
    cleanups,        \* cleanup() calls that have returned
    \* the analysis service called on its own
    detected,        \* what the last detectPatterns / calculateVolatility
                     \* call returned, <<>> before the first call
    \* the database, and the storage calls under way
    portfolio,       \* rows of table portfolio, in insertion order
    portfolioHistory,\* rows of table portfolio_history, in insertion order
    trades,          \* rows of table trades, in insertion order
    calls,           \* every storage caller started so far: its position
                     \* and locals
    dbFaults,        \* database operations that have failed
    users,           \* table users: the balance of each user
    \* the browser
    hook             \* a component that calls useMarketData: its refs, its
                     \* sockets and its timers

vars == <<now, basePrice, priceHistory, analysisCache, lastMarketData, clients,
          readyState, faulty, stalled, handled, wire, tick, running,
          oracleCalls, fallbackAt, skipped, lastBroadcast, appended, published,
          hung, simulatedDataInterval, portfolioUpdateInterval, portfolioPc,
          portfolioTicks, cleanups, detected, portfolio, portfolioHistory,
          trades, calls, dbFaults, users, hook>>

hubVars == <<clients, readyState, faulty, stalled, handled>>
feedVars == <<basePrice, priceHistory, analysisCache, lastMarketData, tick,
              running, oracleCalls, fallbackAt, skipped, lastBroadcast,
              appended, published>>
schedVars == <<simulatedDataInterval, portfolioUpdateInterval, portfolioPc,
               portfolioTicks, cleanups>>
\* what neither the feed nor a subscriber changes
ledgerVars == <<portfolio, portfolioHistory, trades, calls, dbFaults, users>>
clientVars == <<hook>>
auxVars == <<hung, detected, schedVars, ledgerVars, clientVars>>

TickIds == DOMAIN tick

\* what analyzeTechnicals returns when neither analysis yields anything
NoTechnicals == [patterns |-> <<>>, volatility |-> <<>>]

\* a callback's locals.  pc, i, entries, newPrice, technicals and aiResult
\* are the program's; the others record, for the properties, when the
\* callback started (firedAt), the history right after its append (own),
\* the history its oracle context was built from (context) and how its
\* oracle request ended (outcome)
IdleTick == [pc |-> "idle", i |-> 1, entries |-> InitialBasePrice,
             newPrice |-> 0, aiResult |-> <<>>, technicals |-> NoTechnicals,
             firedAt |-> 0, own |-> <<>>, context |-> <<>>, outcome |-> "none"]

\* the symbol a callback is working on
SymOf(t) == SymbolOrder[tick[t].i]

\* ------------------------------------------------------------ price history

\* a history that is never trimmed
UpdatePriceHistoryNoTrim(history, price) == Append(history, price)

\* a history trimmed at the wrong end: pop() in place of shift()
UpdatePriceHistoryPop(history, price) ==
    LET pushed == Append(history, price)
    IN IF Len(pushed) > HISTORY_CAPACITY
       THEN SubSeq(pushed, 1, Len(pushed) - 1)
       ELSE pushed

\* updatePriceHistory: push, then drop the oldest entry above the capacity
UpdatePriceHistory(history, price) ==
    LET pushed == Append(history, price)
    IN IF Len(pushed) > HISTORY_CAPACITY THEN Tail(pushed) ELSE pushed

\* price + price * volatility * randomFactor, on integer prices
NewPrice(price, randomFactor) ==
    price + (price \div VOLATILITY_INVERSE) * randomFactor

\* ------------------------------------------------------- technical analysis

\* how the TensorFlow pipeline of one detectPatterns call ends: it yields
\* the convolutions, or one of its operations throws into the catch block
TensorOutcomes == {"ok", "throw"}

\* prices.slice(-n)
SliceLast(prices, n) ==
    IF Len(prices) <= n THEN prices
    ELSE SubSeq(prices, Len(prices) - n + 1, Len(prices))

MinOf(window) ==
    CHOOSE x \in {window[k] : k \in DOMAIN window} :
        \A y \in {window[k] : k \in DOMAIN window} : x <= y
MaxOf(window) ==
    CHOOSE x \in {window[k] : k \in DOMAIN window} :
        \A y \in {window[k] : k \in DOMAIN window} : x >= y

Abs(x) == IF x < 0 THEN -x ELSE x

\* the kernels, times KERNEL_SCALE so that every weight is an integer
KERNEL_SCALE == 2
TriangleKernel == <<2, 1, 0, -1, -2>>       \* [1, 0.5, 0, -0.5, -1]
HsKernel == <<2, -2, 4, -2, 2>>             \* [1, -1, 2, -1, 1]

\* the 'valid' convolution at 0-based offset i of the normalised window
\* (x - min) / (max - min), times KERNEL_SCALE * (max - min)
Response(window, lo, kernel, i) ==
    LET F[j \in 0..KERNEL_SIZE] ==
            IF j = 0 THEN 0
            ELSE F[j - 1] + kernel[j] * (window[i + j] - lo)
    IN F[KERNEL_SIZE]

\* the loops of lines 81-104 over a window normalised as x / max, without
\* the shift by the minimum
PatternsOfUnshifted(window, kernel, type) ==
    IF Len(window) < KERNEL_SIZE THEN <<>>
    ELSE
    LET den == KERNEL_SCALE * MaxOf(window)
        n == Len(window) - KERNEL_SIZE + 1
        F[i \in 0..n] ==
            IF i = 0 THEN <<>>
            ELSE LET num == Abs(Response(window, 0, kernel, i - 1))
                 IN IF den > 0 /\ 10 * num > 7 * den
                    THEN Append(F[i - 1],
                                [type |-> type,
                                 confidence |-> [num |-> num, den |-> den],
                                 startIndex |-> i - 1, endIndex |-> i + 3])
                    ELSE F[i - 1]
    IN F[n]

\* the loops of lines 81-104 with the threshold at 0.5
PatternsOfLowThreshold(window, kernel, type) ==
    IF Len(window) < KERNEL_SIZE THEN <<>>
    ELSE
    LET lo == MinOf(window)
        den == KERNEL_SCALE * (MaxOf(window) - lo)
        n == Len(window) - KERNEL_SIZE + 1
        F[i \in 0..n] ==
            IF i = 0 THEN <<>>
            ELSE LET num == Abs(Response(window, lo, kernel, i - 1))
                 IN IF den > 0 /\ 10 * num > 5 * den
                    THEN Append(F[i - 1],
                                [type |-> type,
                                 confidence |-> [num |-> num, den |-> den],
                                 startIndex |-> i - 1, endIndex |-> i + 3])
                    ELSE F[i - 1]
    IN F[n]

\* lines 81-104: one pattern per offset whose |response| exceeds 0.7; the
\* confidence |response| is kept as the exact fraction num / den.  On a
\* flat window the normalisation is 0 / 0, NaN, and no comparison holds.
PatternsOf(window, kernel, type) ==
    IF Len(window) < KERNEL_SIZE THEN <<>>
    ELSE
    LET lo == MinOf(window)
        den == KERNEL_SCALE * (MaxOf(window) - lo)
        n == Len(window) - KERNEL_SIZE + 1
        F[i \in 0..n] ==
            IF i = 0 THEN <<>>
            ELSE LET num == Abs(Response(window, lo, kernel, i - 1))
                 IN IF den > 0 /\ 10 * num > 7 * den
                    THEN Append(F[i - 1],
                                [type |-> type,
                                 confidence |-> [num |-> num, den |-> den],
                                 startIndex |-> i - 1, endIndex |-> i + 3])
                    ELSE F[i - 1]
    IN F[n]

\* detectPatterns without its length test
DetectPatternsNoGuard(prices, tf) ==
    IF tf = "throw" THEN <<>>
    ELSE LET window == SliceLast(prices, PATTERN_WINDOW)
         IN PatternsOf(window, TriangleKernel, "triangle")
            \o PatternsOf(window, HsKernel, "head_and_shoulders")

\* detectPatterns
DetectPatterns(prices, tf) ==
    IF Len(prices) < PATTERN_WINDOW THEN <<>>
    ELSE IF tf = "throw" THEN <<>>
    ELSE LET window == SliceLast(prices, PATTERN_WINDOW)
         IN PatternsOf(window, TriangleKernel, "triangle")
            \o PatternsOf(window, HsKernel, "head_and_shoulders")

\* the metrics object of lines 170-178.  Its numbers are functions of the
\* price list alone; the list stands for them.
VolatilityMetrics(prices) == [computedFrom |-> prices]

\* calculateVolatility with a length test that lets short lists through
CalculateVolatilityEarly(prices) ==
    IF Len(prices) < KERNEL_SIZE THEN <<>> ELSE <<VolatilityMetrics(prices)>>

\* calculateVolatility: null below the window
CalculateVolatility(prices) ==
    IF Len(prices) < VOLATILITY_WINDOW THEN <<>> ELSE <<VolatilityMetrics(prices)>>

\* analyzeTechnicals run on the history minus its newest entry
AnalyzeTechnicalsStale(prices, tf) ==
    LET stale == SubSeq(prices, 1, Len(prices) - 1)
    IN [patterns |-> DetectPatterns(stale, tf),
        volatility |-> CalculateVolatility(stale)]

\* analyzeTechnicals: both analyses of the symbol's history
AnalyzeTechnicals(prices, tf) ==
    [patterns |-> DetectPatterns(prices, tf),
     volatility |-> CalculateVolatility(prices)]

\* ------------------------------------------------------ recommendation cache

\* the freshness test with <= in place of <
CacheHitInclusive(cached, time) ==
    cached # <<>> /\ time - cached[1].timestamp <= CACHE_DURATION

\* the freshness test with its comparison reversed
CacheHitReversed(cached, time) ==
    cached # <<>> /\ time - cached[1].timestamp > CACHE_DURATION

\* cached && Date.now() - cached.timestamp < CACHE_DURATION
CacheHit(cached, time) ==
    cached # <<>> /\ time - cached[1].timestamp < CACHE_DURATION

\* a catch block that returns the fallback with no confidence at all
AnalyzeMarketZeroConfidence(outcome) ==
    IF outcome.kind = "ok"
    THEN [threw |-> FALSE, result |-> outcome.analysis, fallback |-> FALSE]
    ELSE [threw |-> FALSE, result |-> [DefaultResult EXCEPT !.confidence = 0],
          fallback |-> TRUE]

\* analyzeMarket without its catch block: a failed request rejects
AnalyzeMarketNoCatch(outcome) ==
    IF outcome.kind = "ok"
    THEN [threw |-> FALSE, result |-> outcome.analysis, fallback |-> FALSE]
    ELSE [threw |-> TRUE, result |-> DefaultResult, fallback |-> FALSE]

\* what analyzeMarket does with the end of its oracle request: the value it
\* resolves with, whether it rejects instead, and whether the value is the
\* fallback of the catch block
AnalyzeMarketSettle(outcome) ==
    IF outcome.kind = "ok"
    THEN [threw |-> FALSE, result |-> outcome.analysis, fallback |-> FALSE]
    ELSE [threw |-> FALSE, result |-> DefaultResult, fallback |-> TRUE]

\* ---------------------------------------------------------------- broadcast

\* broadcast() without its readyState test
TargetsAnyState == clients

\* the sockets broadcast() calls send() on
Targets == {c \in clients : readyState[c] = "OPEN"}

\* a catch that logs the failed send and keeps the socket
BroadcastClientsKept == clients

\* clients after broadcast(): a socket whose send() throws is deleted
BroadcastClients == clients \ (Targets \cap faulty)

\* a set of sockets in the order Set.forEach visits them
RECURSIVE InOrder(_)
InOrder(S) ==
    IF S = {} THEN <<>>
    ELSE LET c == CHOOSE x \in S : \A y \in S : ChannelRank(x) <= ChannelRank(y)
         IN <<c>> \o InOrder(S \ {c})

\* the sends of broadcast(data) that return normally
BroadcastWire(data) ==
    LET accepted == InOrder(Targets \ faulty)
    IN [k \in 1..Len(accepted) |-> [to |-> accepted[k], data |-> data]]

\* the MarketData object of lines 265-276; a field that is undefined or
\* null is <<>>
MarketData(symbol, price, volume, time, aiResult, technicals) ==
    [symbol |-> symbol, exchange |-> "crypto", price |-> price,
     volume24h |-> volume, timestamp |-> time \div MS_PER_SECOND,
     patternAnalysis |-> IF Len(technicals.patterns) > 0
                         THEN <<[patterns |-> technicals.patterns]>>
                         ELSE <<>>,
     volatilityMetrics |-> technicals.volatility,
     aiAnalysis |-> aiResult]

\* a connection handler that sends the first known snapshot only
InitialDataFirstOnly ==
    LET known == {k \in 1..Len(SymbolOrder) : lastMarketData[SymbolOrder[k]] # <<>>}
    IN IF known = {} THEN <<>>
       ELSE <<lastMarketData[SymbolOrder[CHOOSE k \in known : \A j \in known : k <= j]][1]>>

\* the messages the connection handler sends: lastMarketData.forEach
InitialData ==
    LET Known(s) == lastMarketData[s] # <<>>
        F[k \in 0..Len(SymbolOrder)] ==
            IF k = 0 THEN <<>>
            ELSE IF Known(SymbolOrder[k])
                 THEN Append(F[k - 1], lastMarketData[SymbolOrder[k]][1])
                 ELSE F[k - 1]
    IN F[Len(SymbolOrder)]


\* --------------------------------------------------------------------- Init

\* useMarketData before the component is rendered.  wsRef and
\* reconnectTimeoutRef are 0 for null; cleaned and scheduled record, for the
\* properties, that the effect's cleanup has run and how many timers were set.
NoHook ==
    [rendered |-> FALSE, symbol |-> "", mounted |-> TRUE, wsRef |-> 0,
     reconnectTimeoutRef |-> 0, sockets |-> <<>>, timers |-> {}, marketData |-> <<>>,
     clock |-> 0, cleaned |-> FALSE, scheduled |-> 0]

\* an empty database, nobody calling the storage, and no browser
NoStorageCalls ==
    /\ portfolio = <<>>
    /\ portfolioHistory = <<>>
    /\ trades = <<>>
    /\ calls = <<>>
    /\ dbFaults = 0
    /\ users = <<>>
    /\ hook = NoHook

Init ==
    /\ now = 0
    /\ basePrice = InitialBasePrice
    /\ priceHistory = [s \in Symbols |-> <<>>]
    /\ analysisCache = [s \in Symbols |-> <<>>]
    /\ lastMarketData = [s \in Symbols |-> <<>>]
    /\ lastBroadcast = [s \in Symbols |-> <<>>]
    /\ clients = {}
    /\ readyState = [c \in Channels |-> "NONE"]
    /\ faulty = {}
    /\ stalled = {}
    /\ handled = {}
    /\ wire = <<>>
    /\ tick = [t \in 1..MaxTicks |-> IdleTick]
    /\ running = 0
    /\ oracleCalls = [s \in Symbols |-> 0]
    /\ fallbackAt = [s \in Symbols |-> <<>>]
    /\ skipped = {}
    /\ appended = [s \in Symbols |-> <<>>]
    /\ published = {}
    /\ hung = {}
    /\ simulatedDataInterval = "set"
    /\ portfolioUpdateInterval = "null"
    /\ portfolioPc = "awaiting"
    /\ portfolioTicks = 0
    /\ cleanups = 0
    /\ detected = <<>>
    /\ NoStorageCalls

\* ------------------------------------------------------- the market tick

\* the locals of one iteration are gone when it ends
EndIteration(locals) ==
    [locals EXCEPT !.aiResult = <<>>, !.technicals = NoTechnicals, !.own = <<>>,
                   !.context = <<>>, !.outcome = "none"]

\* the callback moves on to the next symbol of its loop, or returns
NextSymbol(t, locals) ==
    IF locals.i < Len(SymbolOrder)
    THEN /\ tick' = [tick EXCEPT ![t] = [EndIteration(locals) EXCEPT !.pc = "perturb",
                                                                     !.i = @ + 1]]
         /\ running' = t
    ELSE /\ tick' = [tick EXCEPT ![t] = [EndIteration(locals) EXCEPT !.pc = "done"]]
         /\ running' = 0

\* a try block around the whole loop: a fault ends the callback
AbortTick(t, locals) ==
    /\ tick' = [tick EXCEPT ![t] = [EndIteration(locals) EXCEPT !.pc = "done"]]
    /\ running' = 0

\* lines 283-285: the catch is inside the loop, which goes on
AfterCatch(t, locals) == NextSymbol(t, locals)

\* setInterval fires: the callback starts and Object.entries(basePrice)
\* captures every symbol's price
TimerFire(t) ==
    /\ running = 0
    /\ simulatedDataInterval = "set"
    /\ tick[t].pc = "idle"
    /\ \A u \in TickIds : u < t => tick[u].pc # "idle"
    /\ now' = now + TICK_PERIOD
    /\ tick' = [tick EXCEPT ![t] = [IdleTick EXCEPT !.pc = "perturb", !.entries = basePrice,
                                                    !.firedAt = now + TICK_PERIOD]]
    /\ running' = t
    /\ wire' = <<>>
    /\ UNCHANGED <<hubVars, basePrice, priceHistory, analysisCache, lastMarketData,
                   lastBroadcast, oracleCalls, fallbackAt, skipped, appended,
                   published, auxVars>>

\* lines 243-252: the new price, basePrice[symbol], the history append and
\* analyzeTechnicals, which reads the history the append left and changes
\* no state; its awaits are settled without leaving the event loop
StartSymbol(t, randomFactor, tf) ==
    /\ running = t
    /\ tick[t].pc = "perturb"
    /\ LET s == SymOf(t)
           newPrice == NewPrice(tick[t].entries[s], randomFactor)
           history == UpdatePriceHistory(priceHistory[s], newPrice)
       IN /\ basePrice' = [basePrice EXCEPT ![s] = newPrice]
          /\ priceHistory' = [priceHistory EXCEPT ![s] = history]
          /\ appended' = [appended EXCEPT ![s] = Append(@, newPrice)]
          /\ tick' = [tick EXCEPT ![t].pc = "ai", ![t].newPrice = newPrice,
                                  ![t].own = history,
                                  ![t].technicals = AnalyzeTechnicals(history, tf)]
    /\ wire' = <<>>
    /\ UNCHANGED <<now, hubVars, analysisCache, lastMarketData, lastBroadcast, running,
                   oracleCalls, fallbackAt, skipped, published, auxVars>>

\* the historicalPrices argument of line 259, read when the call is made
HistoricalPrices(s) == priceHistory[s]

\* analyzeMarket up to its await: a fresh cache entry is returned, otherwise
\* the market context is built from the arguments, the oracle is requested
\* and the callback leaves the event loop
AnalyzeMarketCall(t) ==
    /\ running = t
    /\ tick[t].pc = "ai"
    /\ LET s == SymOf(t)
           cached == analysisCache[s]
       IN IF CacheHit(cached, now)
          THEN /\ tick' = [tick EXCEPT ![t].pc = "build",
                                       ![t].aiResult = <<cached[1].result>>]
               /\ UNCHANGED <<oracleCalls, running>>
          ELSE /\ tick' = [tick EXCEPT ![t].pc = "oracle",
                                       ![t].context = <<HistoricalPrices(s)>>]
               /\ oracleCalls' = [oracleCalls EXCEPT ![s] = @ + 1]
               /\ running' = 0
    /\ wire' = <<>>
    /\ UNCHANGED <<now, hubVars, basePrice, priceHistory, analysisCache, lastMarketData,
                   lastBroadcast, fallbackAt, skipped, appended, published, auxVars>>

\* the oracle request ends: analyzeMarket stores and returns the answer or
\* the fallback; were it to reject, the tick's catch would skip the symbol
OracleResponse(t, outcome) ==
    /\ running = 0
    /\ tick[t].pc = "oracle"
    /\ t \notin hung
    /\ LET s == SymOf(t)
           settle == AnalyzeMarketSettle(outcome)
       IN IF settle.threw
          THEN /\ skipped' = skipped \cup {<<t, s>>}
               /\ NextSymbol(t, tick[t])
               /\ UNCHANGED <<analysisCache, fallbackAt>>
          ELSE /\ analysisCache' = [analysisCache EXCEPT
                                       ![s] = <<[result |-> settle.result, timestamp |-> now]>>]
               /\ fallbackAt' = [fallbackAt EXCEPT
                                    ![s] = IF settle.fallback THEN <<now>> ELSE @]
               /\ tick' = [tick EXCEPT ![t].pc = "build", ![t].aiResult = <<settle.result>>,
                                       ![t].outcome = outcome.kind]
               /\ running' = t
               /\ UNCHANGED skipped
    /\ wire' = <<>>
    /\ UNCHANGED <<now, hubVars, basePrice, priceHistory, lastMarketData, lastBroadcast,
                   oracleCalls, appended, published, auxVars>>

\* a timestamp taken when the callback started
SnapshotTimeAtStart(t) == tick[t].firedAt

\* line 270: Date.now() is read when the snapshot is built
SnapshotTime(t) == now

\* lines 262-281: the snapshot is built, stored as the symbol's last
\* snapshot and broadcast
Publish(t, volume) ==
    /\ running = t
    /\ tick[t].pc = "build"
    /\ LET s == SymOf(t)
           data == MarketData(s, tick[t].newPrice, volume, SnapshotTime(t),
                              tick[t].aiResult[1], tick[t].technicals)
       IN /\ lastMarketData' = [lastMarketData EXCEPT ![s] = <<data>>]
          /\ lastBroadcast' = [lastBroadcast EXCEPT ![s] = <<data>>]
          /\ published' = published \cup {<<t, s>>}
          /\ clients' = BroadcastClients
          /\ wire' = BroadcastWire(data)
    /\ NextSymbol(t, tick[t])
    /\ UNCHANGED <<now, readyState, faulty, stalled, handled, basePrice, priceHistory, analysisCache,
                   oracleCalls, fallbackAt, skipped, appended, auxVars>>

\* a statement of the try block throws while the callback holds the loop:
\* the catch logs the fault and the iteration ends without a snapshot
SymbolFault(t) ==
    /\ running = t
    /\ tick[t].pc \in {"perturb", "ai", "build"}
    /\ skipped' = skipped \cup {<<t, SymOf(t)>>}
    /\ AfterCatch(t, tick[t])
    /\ wire' = <<>>
    /\ UNCHANGED <<now, hubVars, basePrice, priceHistory, analysisCache, lastMarketData,
                   lastBroadcast, oracleCalls, fallbackAt, appended, published, auxVars>>

\* the oracle stops answering a request: the request never ends
Hang(t) ==
    /\ running = 0
    /\ tick[t].pc = "oracle"
    /\ t \notin hung
    /\ hung' = hung \cup {t}
    /\ wire' = <<>>
    /\ UNCHANGED <<now, hubVars, feedVars, detected, schedVars, ledgerVars, clientVars>>

\* ------------------------------------------------------------- subscribers

\* the "connection" handler: the socket joins the set and is sent every
\* last snapshot (a send that throws is logged and skipped).  The handler
\* runs in the turn that accepts the socket, which is OPEN; a socket breaks
\* (SocketFault) in a later turn.
Connect(c) ==
    /\ running = 0
    /\ readyState[c] = "NONE"
    /\ clients' = clients \cup {c}
    /\ readyState' = [readyState EXCEPT ![c] = "OPEN"]
    /\ wire' = IF c \in faulty THEN <<>>
               ELSE [k \in 1..Len(InitialData) |-> [to |-> c, data |-> InitialData[k]]]
    /\ UNCHANGED <<now, faulty, stalled, handled, feedVars, auxVars>>

\* the closing handshake starts: the socket is no longer OPEN, its "close"
\* event has not been delivered yet
BeginClose(c) ==
    /\ running = 0
    /\ readyState[c] = "OPEN"
    /\ c \notin stalled
    /\ readyState' = [readyState EXCEPT ![c] = "CLOSING"]
    /\ wire' = <<>>
    /\ UNCHANGED <<now, clients, faulty, stalled, handled, feedVars, auxVars>>

\* a "close" handler that leaves the socket in the set
OnCloseKept(c) ==
    /\ running = 0
    /\ readyState[c] \in {"OPEN", "CLOSING"}
    /\ c \notin stalled
    /\ readyState' = [readyState EXCEPT ![c] = "CLOSED"]
    /\ handled' = handled \cup {c}
    /\ wire' = <<>>
    /\ UNCHANGED <<now, clients, faulty, stalled, feedVars, auxVars>>

\* the "close" handler
OnClose(c) ==
    /\ running = 0
    /\ readyState[c] \in {"OPEN", "CLOSING"}
    /\ c \notin stalled
    /\ clients' = clients \ {c}
    /\ readyState' = [readyState EXCEPT ![c] = "CLOSED"]
    /\ handled' = handled \cup {c}
    /\ wire' = <<>>
    /\ UNCHANGED <<now, faulty, stalled, feedVars, auxVars>>

\* the "error" handler; the socket then closes
OnError(c) ==
    /\ running = 0
    /\ readyState[c] = "OPEN"
    /\ c \notin stalled
    /\ clients' = clients \ {c}
    /\ readyState' = [readyState EXCEPT ![c] = "CLOSING"]
    /\ handled' = handled \cup {c}
    /\ wire' = <<>>
    /\ UNCHANGED <<now, faulty, stalled, feedVars, auxVars>>

\* an open socket breaks: from now on send() throws
SocketFault(c) ==
    /\ running = 0
    /\ readyState[c] = "OPEN"
    /\ c \in clients
    /\ c \notin faulty
    /\ c \notin stalled
    /\ faulty' = faulty \cup {c}
    /\ wire' = <<>>
    /\ UNCHANGED <<now, clients, readyState, stalled, handled, feedVars, auxVars>>

\* the peer stops reading: the socket stays open and keeps accepting sends,
\* which pile up in its buffer; it never closes or fails
Stall(c) ==
    /\ running = 0
    /\ readyState[c] = "OPEN"
    /\ c \in clients
    /\ c \notin faulty
    /\ c \notin stalled
    /\ stalled' = stalled \cup {c}
    /\ wire' = <<>>
    /\ UNCHANGED <<now, clients, readyState, faulty, handled, feedVars, auxVars>>

Next ==
    \/ \E t \in TickIds : TimerFire(t)
    \/ \E t \in TickIds, randomFactor \in RandomFactors, tf \in TensorOutcomes :
          StartSymbol(t, randomFactor, tf)
    \/ \E t \in TickIds : AnalyzeMarketCall(t)
    \/ \E t \in TickIds, outcome \in OracleOutcomes : OracleResponse(t, outcome)
    \/ \E t \in TickIds, volume \in Volumes : Publish(t, volume)
    \/ \E c \in Channels : Connect(c)
    \/ \E c \in Channels : BeginClose(c)
    \/ \E c \in Channels : OnClose(c)
    \/ \E c \in Channels : OnError(c)
    \/ \E c \in Channels : SocketFault(c)

Spec == Init /\ [][Next]_vars

\* the same program with subscribers that may stall, under the scheduling
\* the event loop guarantees: a started callback runs on, a timer that is
\* due fires, an oracle request ends
StallNext == Next \/ \E c \in Channels : Stall(c)

FairSpec ==
    /\ Init
    /\ [][StallNext]_vars
    /\ WF_vars(\E t \in TickIds : TimerFire(t))
    /\ WF_vars(\E t \in TickIds, randomFactor \in RandomFactors, tf \in TensorOutcomes :
          StartSymbol(t, randomFactor, tf))
    /\ WF_vars(\E t \in TickIds : AnalyzeMarketCall(t))
    /\ WF_vars(\E t \in TickIds, outcome \in OracleOutcomes : OracleResponse(t, outcome))
    /\ WF_vars(\E t \in TickIds, volume \in Volumes : Publish(t, volume))

\* the feed with no subscriber ever connecting, and one more timer callback
FeedInit ==
    /\ now = 0
    /\ basePrice = InitialBasePrice
    /\ priceHistory = [s \in Symbols |-> <<>>]
    /\ analysisCache = [s \in Symbols |-> <<>>]
    /\ lastMarketData = [s \in Symbols |-> <<>>]
    /\ lastBroadcast = [s \in Symbols |-> <<>>]
    /\ clients = {}
    /\ readyState = [c \in Channels |-> "NONE"]
    /\ faulty = {}
    /\ stalled = {}
    /\ handled = {}
    /\ wire = <<>>
    /\ tick = [t \in 1..MaxFeedTicks |-> IdleTick]
    /\ running = 0
    /\ oracleCalls = [s \in Symbols |-> 0]
    /\ fallbackAt = [s \in Symbols |-> <<>>]
    /\ skipped = {}
    /\ appended = [s \in Symbols |-> <<>>]
    /\ published = {}
    /\ hung = {}
    /\ simulatedDataInterval = "set"
    /\ portfolioUpdateInterval = "null"
    /\ portfolioPc = "awaiting"
    /\ portfolioTicks = 0
    /\ cleanups = 0
    /\ detected = <<>>
    /\ NoStorageCalls

FeedNext ==
    \/ \E t \in TickIds : TimerFire(t)
    \/ \E t \in TickIds, randomFactor \in RandomFactors, tf \in TensorOutcomes :
          StartSymbol(t, randomFactor, tf)
    \/ \E t \in TickIds : AnalyzeMarketCall(t)
    \/ \E t \in TickIds, outcome \in OracleOutcomes : OracleResponse(t, outcome)
    \/ \E t \in TickIds, volume \in Volumes : Publish(t, volume)

FeedSpec == FeedInit /\ [][FeedNext]_vars

\* --------------------------------------------- the history on its own

\* updatePriceHistory called with the successive prices of a symbol's walk
HistAppend(s, randomFactor) ==
    /\ Len(appended[s]) < MaxAppends
    /\ LET newPrice == NewPrice(basePrice[s], randomFactor)
       IN /\ basePrice' = [basePrice EXCEPT ![s] = newPrice]
          /\ priceHistory' = [priceHistory EXCEPT ![s] = UpdatePriceHistory(@, newPrice)]
          /\ appended' = [appended EXCEPT ![s] = Append(@, newPrice)]
    /\ UNCHANGED <<now, hubVars, wire, analysisCache, lastMarketData, lastBroadcast, tick,
                   running, oracleCalls, fallbackAt, skipped, published, auxVars>>

HistNext == \E s \in Symbols, randomFactor \in RandomFactors : HistAppend(s, randomFactor)

HistSpec == Init /\ [][HistNext]_vars

\* ------------------------------------------ faults inside the tick's try block

FaultNext ==
    \/ FeedNext
    \/ \E t \in TickIds : SymbolFault(t)

FaultSpec == Init /\ [][FaultNext]_vars

\* --------------------------------------------- an oracle that stops answering

HangNext ==
    \/ FeedNext
    \/ \E t \in TickIds : Hang(t)

\* the event loop's scheduling: a due timer fires, a started callback runs
\* on, and every oracle request that has not hung ends
HangSpec ==
    /\ FeedInit
    /\ [][HangNext]_vars
    /\ WF_vars(\E t \in TickIds : TimerFire(t))
    /\ WF_vars(\E t \in TickIds, randomFactor \in RandomFactors, tf \in TensorOutcomes :
                  StartSymbol(t, randomFactor, tf))
    /\ WF_vars(\E t \in TickIds : AnalyzeMarketCall(t))
    /\ WF_vars(\E t \in TickIds, outcome \in OracleOutcomes : OracleResponse(t, outcome))
    /\ WF_vars(\E t \in TickIds, volume \in Volumes : Publish(t, volume))

\* ------------------------------------------------- the two timers and cleanup

\* startPortfolioTracking resumes after `await updatePortfolioValue()` and
\* only now installs the portfolio timer (line 309)
InitialValuationDone ==
    /\ running = 0
    /\ portfolioPc = "awaiting"
    /\ \A c \in DOMAIN calls : calls[c].initial => calls[c].pc = "done"
    /\ portfolioPc' = "tracking"
    /\ portfolioUpdateInterval' = "set"
    /\ wire' = <<>>
    /\ UNCHANGED <<now, hubVars, feedVars, hung, detected, simulatedDataInterval,
                   portfolioTicks, cleanups, ledgerVars, clientVars>>

\* the portfolio timer fires: updatePortfolioValue starts
PortfolioTimerFire ==
    /\ running = 0
    /\ portfolioUpdateInterval = "set"
    /\ portfolioTicks < MaxPortfolioTicks
    /\ portfolioTicks' = portfolioTicks + 1
    /\ wire' = <<>>
    /\ UNCHANGED <<now, hubVars, feedVars, hung, detected, simulatedDataInterval,
                   portfolioUpdateInterval, portfolioPc, cleanups, ledgerVars, clientVars>>

\* cleanup(): clearInterval on each timer field that is not null
Cleanup ==
    /\ running = 0
    /\ cleanups < MaxCleanups
    /\ simulatedDataInterval' = "cleared"
    /\ portfolioUpdateInterval' =
           IF portfolioUpdateInterval = "null" THEN "null" ELSE "cleared"
    /\ cleanups' = cleanups + 1
    /\ wire' = <<>>
    /\ UNCHANGED <<now, hubVars, feedVars, hung, detected, portfolioPc, portfolioTicks,
                   ledgerVars, clientVars>>

SchedNext ==
    \/ FeedNext
    \/ InitialValuationDone
    \/ PortfolioTimerFire
    \/ Cleanup

SchedSpec == Init /\ [][SchedNext]_vars

\* ------------------------------------------------ a feed that has been running

\* the price a walk that stands at price reaches in n steps: the first half
\* of the steps, then the rest from the price they reach
RECURSIVE WalkFrom(_, _)
WalkFrom(price, n) ==
    IF n = 0 THEN price
    ELSE IF n = 1 THEN NewPrice(price, CHOOSE x \in RandomFactors : TRUE)
    ELSE CHOOSE reached \in {WalkFrom(half, n - n \div 2) :
                                half \in {WalkFrom(price, n \div 2)}} : TRUE

\* the first n prices of a symbol's walk
Walk(s, n) == [k \in 1..n |-> WalkFrom(InitialBasePrice[s], k)]

\* ticks between two oracle requests of a symbol when every tick completes
\* before the next one starts
RefreshEvery == CACHE_DURATION \div TICK_PERIOD

\* the time of the last of those requests within the first n ticks
LastRefresh(n) == (((n - 1) \div RefreshEvery) * RefreshEvery + 1) * TICK_PERIOD

\* the numbers of completed ticks WarmSpec starts from: two short of the
\* analysis window, and two short of the history's capacity
WarmStarts == {PATTERN_WINDOW - 2, HISTORY_CAPACITY - 2}

\* the state after n ticks, each completed within its second with a
\* well-formed oracle answer; the callbacks numbered here are those yet to
\* start
WarmInit ==
    \E n \in WarmStarts, r \in OracleResults, tf \in TensorOutcomes, volume \in Volumes :
        LET history(s) == SliceLast(Walk(s, n), HISTORY_CAPACITY)
            last(s) == MarketData(s, Walk(s, n)[n], volume, n * TICK_PERIOD, r,
                                  AnalyzeTechnicals(history(s), tf))
        IN /\ now = n * TICK_PERIOD
           /\ basePrice = [s \in Symbols |-> Walk(s, n)[n]]
           /\ priceHistory = [s \in Symbols |-> history(s)]
           /\ appended = [s \in Symbols |-> Walk(s, n)]
           /\ analysisCache = [s \in Symbols |->
                                  <<[result |-> r, timestamp |-> LastRefresh(n)]>>]
           /\ lastMarketData = [s \in Symbols |-> <<last(s)>>]
           /\ lastBroadcast = [s \in Symbols |-> <<last(s)>>]
           /\ oracleCalls = [s \in Symbols |-> (n - 1) \div RefreshEvery + 1]
           /\ fallbackAt = [s \in Symbols |-> <<>>]
           /\ clients = {}
           /\ readyState = [c \in Channels |-> "NONE"]
           /\ faulty = {}
           /\ stalled = {}
           /\ handled = {}
           /\ wire = <<>>
           /\ tick = [t \in 1..MaxWarmTicks |-> IdleTick]
           /\ running = 0
           /\ skipped = {}
           /\ published = {}
           /\ hung = {}
           /\ simulatedDataInterval = "set"
           /\ portfolioUpdateInterval = "null"
           /\ portfolioPc = "awaiting"
           /\ portfolioTicks = 0
           /\ cleanups = 0
           /\ detected = <<>>
           /\ NoStorageCalls

WarmSpec == WarmInit /\ [][FeedNext]_vars

\* ------------------------------------------------- the analysis on its own

ShortPrices == {100, 101}

\* every price list over ShortPrices of length at most n
RECURSIVE ShortLists(_)
ShortLists(n) ==
    IF n = 0 THEN {<<>>}
    ELSE LET shorter == ShortLists(n - 1)
         IN shorter \cup {Append(l, x) : l \in {m \in shorter : Len(m) = n - 1},
                                         x \in ShortPrices}

Shapes == {"up", "down", "flat", "zigzag", "peak", "settled"}

\* a price list of length n of the given shape
Shaped(shape, n) ==
    [k \in 1..n |->
        CASE shape = "up" -> 1000 + 10 * k
          [] shape = "down" -> 2000 - 10 * k
          [] shape = "flat" -> 1000
          [] shape = "zigzag" -> 1000 + 50 * (k % 2)
          [] shape = "peak" -> 1000 + 10 * (IF 2 * k <= n THEN k ELSE n - k)
          [] shape = "settled" -> IF k = 1 THEN 900 ELSE 1000]

AnalysisInputs ==
    ShortLists(MaxShortLen)
    \cup {Shaped(shape, n) : shape \in Shapes, n \in 1..MaxInputLen}

\* detectPatterns(prices) is called and returns
DetectPatternsCall(prices, tf) ==
    /\ detected' = <<[call |-> "detectPatterns", prices |-> prices,
                      tf |-> tf, result |-> DetectPatterns(prices, tf)]>>
    /\ UNCHANGED <<now, hubVars, feedVars, wire, hung, schedVars, ledgerVars, clientVars>>

\* calculateVolatility(prices) is called and returns
CalculateVolatilityCall(prices) ==
    /\ detected' = <<[call |-> "calculateVolatility", prices |-> prices,
                      result |-> CalculateVolatility(prices)]>>
    /\ UNCHANGED <<now, hubVars, feedVars, wire, hung, schedVars, ledgerVars, clientVars>>

AnalysisNext ==
    \/ \E prices \in AnalysisInputs, tf \in TensorOutcomes : DetectPatternsCall(prices, tf)
    \/ \E prices \in AnalysisInputs : CalculateVolatilityCall(prices)

AnalysisSpec == Init /\ [][AnalysisNext]_vars

\* --------------------------------------------- IEEE 754 binary64 numbers

\* A finite Number is sign * (hi * 2^LIMB_BITS + lo) * 2^exp, with a
\* significand of exactly SIGNIFICAND_BITS bits; zero has sign 0.  Bit
\* sequences hold the least significant bit first.  Wherever an operand is
\* used more than once it is drawn from a singleton set, which evaluates it
\* once.
SIGNIFICAND_BITS == 53
LIMB_BITS == 27

RECURSIVE Pow2(_)
Pow2(n) == IF n = 0 THEN 1 ELSE 2 * Pow2(n - 1)

\* the low bits of a natural number
BitsOfWidth(n, width) == [i \in 1..width |-> (n \div Pow2(i - 1)) % 2]

ValueOf(bits) ==
    LET F[i \in 0..Len(bits)] ==
            IF i = 0 THEN 0 ELSE F[i - 1] + bits[i] * Pow2(i - 1)
    IN F[Len(bits)]

Trim(bits) ==
    LET ones == {i \in DOMAIN bits : bits[i] = 1}
    IN IF ones = {} THEN <<>>
       ELSE SubSeq(bits, 1, CHOOSE i \in ones : \A j \in ones : j <= i)

ShiftLeft(bits, d) == [i \in 1..d |-> 0] \o bits

BitAt(bits, i) == IF i <= Len(bits) THEN bits[i] ELSE 0

\* the carry out of position i of a + b
CarryOut(a, b, i) ==
    \E j \in 1..i :
        /\ BitAt(a, j) + BitAt(b, j) = 2
        /\ \A l \in (j + 1)..i : BitAt(a, l) + BitAt(b, l) = 1

AddBits(a0, b0) ==
    CHOOSE sum \in
        {[i \in 1..((IF Len(a) >= Len(b) THEN Len(a) ELSE Len(b)) + 1) |->
             (BitAt(a, i) + BitAt(b, i)
                 + (IF CarryOut(a, b, i - 1) THEN 1 ELSE 0)) % 2]
         : a \in {a0}, b \in {b0}} : TRUE

\* the borrow out of position i of a - b
BorrowOut(a, b, i) ==
    \E j \in 1..i :
        /\ BitAt(a, j) < BitAt(b, j)
        /\ \A l \in (j + 1)..i : BitAt(a, l) <= BitAt(b, l)

\* a - b for a >= b
SubBits(a0, b0) ==
    CHOOSE difference \in
        {[i \in 1..Len(a) |->
             (BitAt(a, i) - BitAt(b, i)
                 - (IF BorrowOut(a, b, i - 1) THEN 1 ELSE 0) + 2) % 2]
         : a \in {a0}, b \in {b0}} : TRUE

LessBits(a0, b0) ==
    \E a \in {Trim(a0)}, b \in {Trim(b0)} :
        \/ Len(a) < Len(b)
        \/ /\ Len(a) = Len(b)
           /\ \E i \in DOMAIN a :
                 /\ a[i] < b[i]
                 /\ \A j \in (i + 1)..Len(a) : a[j] = b[j]

\* a * k for a natural k, by shift and add over the bits of k
RECURSIVE MulBits(_, _)
MulBits(a0, k) ==
    IF k = 0 THEN <<>>
    ELSE CHOOSE product \in
            {IF k % 2 = 1 THEN AddBits(a, ShiftLeft(rest, 1)) ELSE ShiftLeft(rest, 1)
             : a \in {a0}, rest \in {MulBits(a0, k \div 2)}} : TRUE

\* the remainder of the top n bits of a divided by v
RECURSIVE RemBits(_, _, _)
RemBits(a, v, n) ==
    IF n = 0 THEN 0
    ELSE CHOOSE r \in {(2 * before + a[Len(a) - n + 1]) % v
                       : before \in {RemBits(a, v, n - 1)}} : TRUE

DivBits(a0, v) ==
    CHOOSE division \in
        {CHOOSE d \in
            {[quotient |-> [i \in 1..Len(a) |-> (2 * rem[Len(a) - i] + a[i]) \div v],
              remainder |-> rem[Len(a)]]
             : rem \in {[n \in 0..Len(a) |-> RemBits(a, v, n)]}} : TRUE
         : a \in {a0}} : TRUE

Zero == [sign |-> 0, exp |-> 0, hi |-> 0, lo |-> 0]

Significand(x) ==
    BitsOfWidth(x.lo, LIMB_BITS) \o BitsOfWidth(x.hi, SIGNIFICAND_BITS - LIMB_BITS)

Pack(sign, bits, exp) ==
    [sign |-> sign, exp |-> exp,
     hi |-> ValueOf(SubSeq(bits, LIMB_BITS + 1, SIGNIFICAND_BITS)),
     lo |-> ValueOf(SubSeq(bits, 1, LIMB_BITS))]

\* round to nearest, ties to even
RoundToNumber(sign, bits, exp) ==
    CHOOSE number \in
       {LET drop == Len(sig) - SIGNIFICAND_BITS
        IN IF sig = <<>> THEN Zero
           ELSE IF drop <= 0 THEN Pack(sign, ShiftLeft(sig, -drop), exp + drop)
           ELSE CHOOSE rounded \in
                   {IF Len(up) > SIGNIFICAND_BITS
                    THEN Pack(sign, SubSeq(up, 2, Len(up)), exp + drop + 1)
                    ELSE Pack(sign, up, exp + drop)
                    : up \in {LET kept == SubSeq(sig, drop + 1, Len(sig))
                                  away == /\ sig[drop] = 1
                                          /\ \/ kept[1] = 1
                                             \/ \E i \in 1..(drop - 1) : sig[i] = 1
                              IN IF away THEN Trim(AddBits(kept, <<1>>)) ELSE kept}}
                   : TRUE
        : sig \in {Trim(bits)}} : TRUE

\* -x
Negate(x) == [x EXCEPT !.sign = -x.sign]

\* x < y
Less(x, y) ==
    IF x.sign # y.sign THEN x.sign < y.sign
    ELSE IF x.sign = 0 THEN FALSE
    ELSE LET below == \/ x.exp < y.exp
                      \/ x.exp = y.exp /\ x.hi < y.hi
                      \/ x.exp = y.exp /\ x.hi = y.hi /\ x.lo < y.lo
             same == x.exp = y.exp /\ x.hi = y.hi /\ x.lo = y.lo
         IN IF x.sign = 1 THEN below ELSE ~below /\ ~same

\* x + y
Plus(x0, y0) ==
    CHOOSE sum \in
       {IF x.sign = 0 THEN y
        ELSE IF y.sign = 0 THEN x
        ELSE LET low == IF x.exp <= y.exp THEN x.exp ELSE y.exp
             IN CHOOSE r \in
               {IF x.sign = y.sign THEN RoundToNumber(x.sign, AddBits(a, b), low)
                ELSE IF LessBits(a, b) THEN RoundToNumber(y.sign, SubBits(b, a), low)
                ELSE RoundToNumber(x.sign, SubBits(a, b), low)
                : a \in {ShiftLeft(Significand(x), x.exp - low)},
                  b \in {ShiftLeft(Significand(y), y.exp - low)}} : TRUE
        : x \in {x0}, y \in {y0}} : TRUE

\* k * x for an integer k
Times(k, x0) ==
    CHOOSE product \in
       {IF k = 0 \/ x.sign = 0 THEN Zero
        ELSE RoundToNumber(IF k < 0 THEN -x.sign ELSE x.sign,
                           MulBits(Significand(x), IF k < 0 THEN -k ELSE k), x.exp)
        : x \in {x0}} : TRUE

\* 0 / 0
NotANumber == [sign |-> 0, exp |-> 0, hi |-> 0, lo |-> 0, nan |-> TRUE]

\* x / v for a natural number v; the sticky bit stands for the remainder
DividedBy(x0, v) ==
    CHOOSE quotient \in
       {IF v = 0 THEN NotANumber
        ELSE IF x.sign = 0 THEN Zero
        ELSE LET guard == Len(Trim(BitsOfWidth(v, 31))) + 1
             IN CHOOSE q \in
                  {RoundToNumber(x.sign,
                        <<IF division.remainder = 0 THEN 0 ELSE 1>> \o division.quotient,
                        x.exp - guard - 1)
                   : division \in {DivBits(ShiftLeft(Significand(x), guard), v)}} : TRUE
        : x \in {x0}} : TRUE

\* the two halves of ln 2 that the engine's Math.log adds up
LN2_HI == [sign |-> 1, exp |-> -53, hi |-> 46516319, lo |-> 115343360]
LN2_LO == [sign |-> 1, exp |-> -85, hi |-> 55000550, lo |-> 91831414]

\* Math.log(2^k): k * ln2_hi + k * ln2_lo
MathLogOfPowerOfTwo(k) ==
    IF k = 0 THEN Zero ELSE Plus(Times(k, LN2_HI), Times(k, LN2_LO))

\* ------------------------------------------------------- the risk metrics

\* prices of the risk inputs: powers of two, so that every quotient of two
\* prices is exact
PriceExponents == 0..17

Exponent(price) == CHOOSE e \in PriceExponents : Pow2(e) = price

\* Math.log(2^k) for every quotient of two prices
MathLog == [k \in {a - b : a, b \in PriceExponents} |-> MathLogOfPowerOfTwo(k)]

\* lines 133-136: the log returns
Returns(prices) ==
    [i \in 1..(Len(prices) - 1) |->
        MathLog[Exponent(prices[i + 1]) - Exponent(prices[i])]]

\* the returns left as they are
Unsorted(returns) == returns

\* returns.sort((a, b) => a - b)
SortAscending(returns) ==
    CHOOSE sorted \in
       {[i \in DOMAIN returns |-> returns[CHOOSE j \in DOMAIN returns : rank[j] = i]]
        : rank \in {[j \in DOMAIN returns |->
                       1 + Cardinality({l \in DOMAIN returns :
                              \/ Less(returns[l], returns[j])
                              \/ ~Less(returns[j], returns[l]) /\ l < j})]}}
       : TRUE

\* Math.floor(returns.length * 0.05)
VarIndex(n) == (n * 5) \div 100

\* tailReturns.reduce((sum, r) => sum + r, 0)
RECURSIVE Sum(_, _)
Sum(tailReturns, n) ==
    IF n = 0 THEN Zero
    ELSE CHOOSE sum \in {Plus(before, tailReturns[n])
                         : before \in {Sum(tailReturns, n - 1)}} : TRUE

\* lines 158-163 on the returns of lines 133-136
RiskMetrics(prices) ==
    CHOOSE metrics \in
       {[returns |-> Len(sortedReturns),
         sortedReturns |-> sortedReturns,
         varIndex |-> varIndex,
         valueAtRisk |-> IF varIndex < Len(sortedReturns)
                         THEN Negate(sortedReturns[varIndex + 1])
                         ELSE NotANumber,
         tailReturns |-> SubSeq(sortedReturns, 1, varIndex),
         expectedShortfall |->
             Negate(DividedBy(Sum(sortedReturns, varIndex), varIndex))]
        : sortedReturns \in {SortAscending(Returns(prices))},
          varIndex \in {VarIndex(Len(prices) - 1)}} : TRUE

MaxRiskLen == 100

RiskShapes == {"zigzag", "sawtooth", "flat", "mixed", "dip"}

\* a list of n prices of the given shape
RiskShaped(shape, n) ==
    [k \in 1..n |->
        CASE shape = "zigzag" -> Pow2(17 * (k % 2))
          [] shape = "sawtooth" -> Pow2((k - 1) % 4)
          [] shape = "flat" -> Pow2(10)
          [] shape = "mixed" -> Pow2((k * k) % 7)
          [] shape = "dip" -> Pow2(IF k = 3 THEN 0 ELSE 10)]

RiskInputs == {RiskShaped(shape, n) : shape \in RiskShapes, n \in 1..MaxRiskLen}

\* calculateVolatility is about to be called on a list of prices
RiskInit ==
    \E prices \in RiskInputs :
        /\ now = 0
        /\ basePrice = InitialBasePrice
        /\ priceHistory = [s \in Symbols |-> <<>>]
        /\ analysisCache = [s \in Symbols |-> <<>>]
        /\ lastMarketData = [s \in Symbols |-> <<>>]
        /\ lastBroadcast = [s \in Symbols |-> <<>>]
        /\ clients = {}
        /\ readyState = [c \in Channels |-> "NONE"]
        /\ faulty = {}
        /\ stalled = {}
        /\ handled = {}
        /\ wire = <<>>
        /\ tick = [t \in 1..MaxTicks |-> IdleTick]
        /\ running = 0
        /\ oracleCalls = [s \in Symbols |-> 0]
        /\ fallbackAt = [s \in Symbols |-> <<>>]
        /\ skipped = {}
        /\ appended = [s \in Symbols |-> <<>>]
        /\ published = {}
        /\ hung = {}
        /\ simulatedDataInterval = "set"
        /\ portfolioUpdateInterval = "null"
        /\ portfolioPc = "awaiting"
        /\ portfolioTicks = 0
        /\ cleanups = 0
        /\ detected = <<[call |-> "pending", prices |-> prices]>>
        /\ NoStorageCalls

\* calculateVolatility(prices) runs to its return, with the locals of
\* lines 158-163 when it gets there
CalculateVolatilityRun ==
    /\ detected # <<>>
    /\ detected[1].call = "pending"
    /\ \E result \in {CalculateVolatility(detected[1].prices)} :
          detected' = <<[call |-> "calculateVolatility",
                         prices |-> detected[1].prices,
                         result |-> result,
                         risk |-> IF result = <<>> THEN <<>>
                                  ELSE <<RiskMetrics(detected[1].prices)>>]>>
    /\ UNCHANGED <<now, hubVars, feedVars, wire, hung, schedVars, ledgerVars, clientVars>>

RiskNext == CalculateVolatilityRun

RiskSpec == RiskInit /\ [][RiskNext]_vars

\* ------------------------------------------------------------ the ledger

Users == {1, 2}
TRACKED_USER == 1
PORTFOLIO_PERIOD == 1000
MS_PER_HOUR == 3600000
MS_PER_DAY == 86400000
\* amounts are held in halves: 0.5 is 1, and so are balances and values
AMOUNT_SCALE == 2
DEFAULT_BALANCE == 500000

MaxFaults == 1

Position(id, userId, symbol, amount, averagePrice) ==
    [id |-> id, userId |-> userId, symbol |-> symbol, amount |-> amount,
     averagePrice |-> averagePrice]

\* the holdings the database may hold when the server starts
InitialPortfolios ==
    {<<>>,
     <<Position(1, 1, "BTC/USD", 1, 90000)>>,
     <<Position(1, 1, "BTC/USD", 1, 90000),
       Position(2, 2, "ETH/USD", 3, 3100),
       Position(3, 1, "ETH/USD", 4, 3000)>>}

\* the serial id of the position a trade inserts: an id no row has and no
\* caller has read
NextPositionId ==
    LET taken == {Len(p) : p \in InitialPortfolios}
                 \cup {portfolio[k].id : k \in DOMAIN portfolio}
                 \cup {calls[c].existing[1].id :
                          c \in {d \in DOMAIN calls : calls[d].existing # <<>>}}
    IN 1 + (CHOOSE n \in taken : \A m \in taken : m <= n)

\* the orders posted to /api/trades
TradeInputs ==
    {[userId |-> 1, symbol |-> "BTC/USD", amount |-> 1, price |-> 96000, type |-> type]
     : type \in {"buy", "sell"}}

Timeframes == {"1h", "24h"}

\* (Math.random() - 0.5) * 0.02 in the seeding, in basis points.  No branch
\* depends on the value; one non-zero variance tells a seeded value from the
\* value it was made of.
SeedVariances == {99}

\* who calls recordPortfolioValue: the portfolio loop (schema.ts 302),
\* createTrade (storage.ts 151) and getPortfolioHistory (storage.ts 266)
Callers == {"loop", "trade", "history"}

\* a caller before it starts.  held records, for the properties, what the
\* user held of the symbol when the request came in.
NoCall ==
    [op |-> "", pc |-> "", initial |-> FALSE, userId |-> 0, totalValue |-> 0,
     valued |-> <<>>, stamp |-> 0, trade |-> <<>>, existing |-> <<>>,
     timeframe |-> "", startDate |-> 0, trades |-> <<>>, snapshots |-> <<>>,
     result |-> <<>>, caught |-> FALSE,
     route |-> FALSE, user |-> <<>>, tail |-> FALSE, status |-> 0, held |-> 0]

\* updatePortfolioValue() up to its first await
ValuationRun(initial) ==
    [NoCall EXCEPT !.op = "updatePortfolioValue", !.pc = "getUserPortfolio",
                   !.initial = initial, !.userId = TRACKED_USER]

\* storage.getUserPortfolio
GetUserPortfolio(userId) == SelectSeq(portfolio, LAMBDA row : row.userId = userId)

\* this.lastMarketData.get(symbol)?.price || 0
CurrentPrice(symbol) ==
    IF symbol \in DOMAIN lastMarketData /\ lastMarketData[symbol] # <<>>
    THEN lastMarketData[symbol][1].price
    ELSE 0

\* the holdings valued at what was paid for them
ValueAtCost(positions) ==
    LET F[k \in 0..Len(positions)] ==
            IF k = 0 THEN 0
            ELSE F[k - 1] + positions[k].amount * positions[k].averagePrice
    IN F[Len(positions)]

\* schema.ts 296-300: the holdings at the prices of the last snapshots,
\* in AMOUNT_SCALE-ths
TotalValue(positions) ==
    LET F[k \in 0..Len(positions)] ==
            IF k = 0 THEN 0
            ELSE F[k - 1] + positions[k].amount * CurrentPrice(positions[k].symbol)
    IN F[Len(positions)]

\* storage.ts 146-149 and 261-263: amount * averagePrice
BookValue(positions) ==
    LET F[k \in 0..Len(positions)] ==
            IF k = 0 THEN 0
            ELSE F[k - 1] + positions[k].amount * positions[k].averagePrice
    IN F[Len(positions)]

\* rows ordered by timestamp, rows of equal timestamp in the order given
SortByTimestamp(rows) ==
    CHOOSE sorted \in
       {[i \in DOMAIN rows |-> rows[CHOOSE j \in DOMAIN rows : rank[j] = i]]
        : rank \in {[j \in DOMAIN rows |->
                       1 + Cardinality({l \in DOMAIN rows :
                              \/ rows[l].timestamp < rows[j].timestamp
                              \/ rows[l].timestamp = rows[j].timestamp /\ l < j})]}}
       : TRUE

\* storage.ts 183-199: how far back each seeded point is dated
SeedOffsets ==
    [k \in 1..7 |-> (8 - k) * MS_PER_DAY]
    \o <<20 * MS_PER_HOUR, 16 * MS_PER_HOUR, 12 * MS_PER_HOUR, 8 * MS_PER_HOUR,
         4 * MS_PER_HOUR, 2 * MS_PER_HOUR, MS_PER_HOUR, 0>>

HistoryRow(userId, totalValue, variance, timestamp, seeded, by) ==
    [userId |-> userId, totalValue |-> totalValue, variance |-> variance,
     timestamp |-> timestamp, seeded |-> seeded, by |-> by]

\* storage.ts 202-211: the seeded rows, of a call that read the clock at stamp
SeedRows(c, variance) ==
    [k \in DOMAIN SeedOffsets |->
        HistoryRow(calls[c].userId, calls[c].totalValue, variance,
                   calls[c].stamp - SeedOffsets[k], TRUE, c)]

\* storage.ts 180-219: the rows a recordPortfolioValue call inserts
RecordedRows(c, variance) ==
    IF calls[c].pc = "seed" THEN SeedRows(c, variance)
    ELSE <<HistoryRow(calls[c].userId, calls[c].totalValue, 0, calls[c].stamp, FALSE, c)>>

\* subHours(now, 1) or subHours(now, 24)
StartDate(timeframe) ==
    IF timeframe = "1h" THEN now - MS_PER_HOUR ELSE now - 24 * MS_PER_HOUR

\* storage.ts 271-286: the merged timeline without its sort
TimelineUnsorted(tradeRows, snapshotRows, userId) ==
    LET points ==
            [k \in DOMAIN tradeRows |->
                [timestamp |-> tradeRows[k].timestamp,
                 value |-> [base |-> tradeRows[k].amount * tradeRows[k].price,
                            variance |-> 0]]]
            \o [k \in DOMAIN snapshotRows |->
                [timestamp |-> snapshotRows[k].timestamp,
                 value |-> [base |-> snapshotRows[k].totalValue,
                            variance |-> snapshotRows[k].variance]]]
    IN [index \in DOMAIN points |->
           [id |-> index, userId |-> userId, totalValue |-> points[index].value,
            timestamp |-> points[index].timestamp]]

\* storage.ts 271-286: trades and snapshots merged, sorted and numbered
Timeline(tradeRows, snapshotRows, userId) ==
    LET points ==
            SortByTimestamp(
               [k \in DOMAIN tradeRows |->
                   [timestamp |-> tradeRows[k].timestamp,
                    value |-> [base |-> tradeRows[k].amount * tradeRows[k].price,
                               variance |-> 0]]]
               \o [k \in DOMAIN snapshotRows |->
                   [timestamp |-> snapshotRows[k].timestamp,
                    value |-> [base |-> snapshotRows[k].totalValue,
                               variance |-> snapshotRows[k].variance]]])
    IN [index \in DOMAIN points |->
           [id |-> index, userId |-> userId, totalValue |-> points[index].value,
            timestamp |-> points[index].timestamp]]

\* what no storage step changes
quietVars == <<hook, hubVars, basePrice, priceHistory, analysisCache, tick, running,
               oracleCalls, fallbackAt, skipped, lastBroadcast, appended,
               published, wire, hung, detected, simulatedDataInterval, cleanups>>

\* what the feed and the hub hold while only the storage is looked at
QuietInit ==
    /\ now = 0
    /\ basePrice = InitialBasePrice
    /\ priceHistory = [s \in Symbols |-> <<>>]
    /\ analysisCache = [s \in Symbols |-> <<>>]
    /\ lastBroadcast = [s \in Symbols |-> <<>>]
    /\ clients = {}
    /\ readyState = [c \in Channels |-> "NONE"]
    /\ faulty = {}
    /\ stalled = {}
    /\ handled = {}
    /\ wire = <<>>
    /\ tick = [t \in 1..MaxTicks |-> IdleTick]
    /\ running = 0
    /\ oracleCalls = [s \in Symbols |-> 0]
    /\ fallbackAt = [s \in Symbols |-> <<>>]
    /\ skipped = {}
    /\ appended = [s \in Symbols |-> <<>>]
    /\ published = {}
    /\ hung = {}
    /\ simulatedDataInterval = "set"
    /\ cleanups = 0
    /\ detected = <<>>
    /\ hook = NoHook

\* the server has just been constructed: startPortfolioTracking awaits its
\* first updatePortfolioValue(), no snapshot has been published yet
ValuationInit ==
    \E holdings \in InitialPortfolios :
        /\ QuietInit
        /\ lastMarketData = [s \in Symbols |-> <<>>]
        /\ portfolioUpdateInterval = "null"
        /\ portfolioPc = "awaiting"
        /\ portfolioTicks = 0
        /\ portfolio = holdings
        /\ portfolioHistory = <<>>
        /\ trades = <<>>
        /\ calls = [c \in Callers |-> IF c = "loop" THEN ValuationRun(TRUE) ELSE NoCall]
        /\ dbFaults = 0
        /\ users = [userId \in Users |-> DEFAULT_BALANCE * AMOUNT_SCALE]

\* the server is up: the portfolio timer is armed and both symbols have
\* their snapshot; no valuation has been recorded yet
LedgerInit ==
    \E holdings \in InitialPortfolios :
        /\ QuietInit
        /\ lastMarketData =
              [s \in Symbols |->
                  <<MarketData(s, InitialBasePrice[s], 0, now, <<>>, NoTechnicals)>>]
        /\ portfolioUpdateInterval = "set"
        /\ portfolioPc = "tracking"
        /\ portfolioTicks = 0
        /\ portfolio = holdings
        /\ portfolioHistory = <<>>
        /\ trades = <<>>
        /\ calls = [c \in Callers |-> NoCall]
        /\ dbFaults = 0
        /\ users = [userId \in Users |-> DEFAULT_BALANCE * AMOUNT_SCALE]

\* the feed publishes the first snapshot of the next symbol (schema.ts 277)
FirstSnapshot(s) ==
    /\ lastMarketData[s] = <<>>
    /\ \A k \in DOMAIN SymbolOrder :
          SymbolOrder[k] = s => \A j \in 1..(k - 1) : lastMarketData[SymbolOrder[j]] # <<>>
    /\ lastMarketData' =
          [lastMarketData EXCEPT ![s] =
              <<MarketData(s, InitialBasePrice[s], 0, now, <<>>, NoTechnicals)>>]
    /\ UNCHANGED <<now, quietVars, users, portfolioUpdateInterval, portfolioPc,
                   portfolioTicks, ledgerVars, clientVars>>

\* the portfolio timer fires: updatePortfolioValue() runs to its first
\* await.  The run before it is over: the database answers within the period.
UpdatePortfolioValueCall ==
    /\ portfolioUpdateInterval = "set"
    /\ portfolioTicks < MaxPortfolioTicks
    /\ calls["loop"].pc \in {"", "done"}
    /\ portfolioTicks' = portfolioTicks + 1
    /\ now' = now + PORTFOLIO_PERIOD
    /\ calls' = [calls EXCEPT !["loop"] = ValuationRun(FALSE)]
    /\ UNCHANGED <<quietVars, users, lastMarketData, portfolioUpdateInterval, portfolioPc,
                   portfolio, portfolioHistory, trades, dbFaults>>

\* schema.ts 295-302: the holdings arrive; nothing is recorded for an empty
\* portfolio, otherwise recordPortfolioValue runs to its first await
UpdatePortfolioValueHoldings(c) ==
    /\ calls[c].op = "updatePortfolioValue"
    /\ calls[c].pc = "getUserPortfolio"
    /\ LET positions == GetUserPortfolio(calls[c].userId)
       IN calls' = [calls EXCEPT ![c] =
             IF Len(positions) > 0
             THEN [@ EXCEPT !.pc = "checkHistory", !.valued = positions,
                            !.totalValue = TotalValue(positions)]
             ELSE [@ EXCEPT !.pc = "done"]]
    /\ UNCHANGED <<now, quietVars, users, lastMarketData, portfolioUpdateInterval, portfolioPc,
                   portfolioTicks, portfolio, portfolioHistory, trades, dbFaults>>

\* storage.ts 173-199, 214-218: the history test comes back, the clock is
\* read and the insert or the fifteen inserts are sent
RecordPortfolioValueCheck(c) ==
    /\ calls[c].pc = "checkHistory"
    /\ LET history == SelectSeq(portfolioHistory, LAMBDA row : row.userId = calls[c].userId)
       IN calls' = [calls EXCEPT ![c] =
             [@ EXCEPT !.pc = IF Len(history) = 0 THEN "seed" ELSE "insert",
                       !.stamp = now]]
    /\ UNCHANGED <<now, quietVars, users, lastMarketData, portfolioUpdateInterval, portfolioPc,
                   portfolioTicks, portfolio, portfolioHistory, trades, dbFaults>>

\* the caller after recordPortfolioValue has returned: updatePortfolioValue
\* and createTrade are done, getPortfolioHistory calls itself again; the
\* route that called createTrade goes on to updateUserBalance
AfterRecord(call) ==
    IF call.op = "getPortfolioHistory"
    THEN [call EXCEPT !.pc = "selectTrades", !.startDate = StartDate(call.timeframe)]
    ELSE IF call.route
         THEN [call EXCEPT !.pc = "updateUserBalance"]
         ELSE [call EXCEPT !.pc = "done"]

\* the database runs the insert or inserts, and the caller goes on
RecordPortfolioValueWrite(c, variance) ==
    /\ calls[c].pc \in {"seed", "insert"}
    /\ portfolioHistory' = portfolioHistory \o RecordedRows(c, variance)
    /\ calls' = [calls EXCEPT ![c] = AfterRecord(@)]
    /\ UNCHANGED <<now, quietVars, users, lastMarketData, portfolioUpdateInterval, portfolioPc,
                   portfolioTicks, portfolio, trades, dbFaults>>

\* POST /api/trades has reached storage.createTrade, which sends its insert
CreateTradeCall(trade) ==
    /\ calls["trade"].pc = ""
    /\ calls' = [calls EXCEPT !["trade"] =
                    [NoCall EXCEPT !.op = "createTrade", !.pc = "insertTrade",
                                   !.userId = trade.userId, !.trade = <<trade>>]]
    /\ UNCHANGED <<now, quietVars, users, lastMarketData, portfolioUpdateInterval, portfolioPc,
                   portfolioTicks, portfolio, portfolioHistory, trades, dbFaults>>

\* storage.ts 124-137: the trade is inserted; updatePortfolio sends its select
CreateTradeInsert(c) ==
    /\ calls[c].pc = "insertTrade"
    /\ trades' = Append(trades, [userId |-> calls[c].trade[1].userId,
                                 symbol |-> calls[c].trade[1].symbol,
                                 amount |-> calls[c].trade[1].amount,
                                 price |-> calls[c].trade[1].price,
                                 type |-> calls[c].trade[1].type,
                                 timestamp |-> now])
    /\ calls' = [calls EXCEPT ![c].pc = "selectPosition"]
    /\ UNCHANGED <<now, quietVars, users, lastMarketData, portfolioUpdateInterval, portfolioPc,
                   portfolioTicks, portfolio, portfolioHistory, dbFaults>>

\* storage.ts 42-49: the existing position comes back
UpdatePortfolioSelect(c) ==
    /\ calls[c].pc = "selectPosition"
    /\ calls' = [calls EXCEPT ![c] =
          [@ EXCEPT !.pc = "writePosition",
                    !.existing = SelectSeq(portfolio,
                        LAMBDA row : /\ row.userId = calls[c].trade[1].userId
                                     /\ row.symbol = calls[c].trade[1].symbol)]]
    /\ UNCHANGED <<now, quietVars, users, lastMarketData, portfolioUpdateInterval, portfolioPc,
                   portfolioTicks, portfolio, portfolioHistory, trades, dbFaults>>

\* storage.ts 51-87: the position is deleted, updated or inserted
UpdatedPortfolio(c) ==
    LET trade == calls[c].trade[1]
        existing == calls[c].existing
        newAmount == IF trade.type = "buy" THEN trade.amount ELSE -trade.amount
    IN IF Len(existing) > 0
       THEN LET totalAmount == existing[1].amount + newAmount
                newAvgPrice ==
                    IF trade.type = "buy"
                    THEN (existing[1].amount * existing[1].averagePrice
                            + trade.amount * trade.price) \div totalAmount
                    ELSE existing[1].averagePrice
            IN IF totalAmount = 0
               THEN SelectSeq(portfolio, LAMBDA row : row.id # existing[1].id)
               ELSE [k \in DOMAIN portfolio |->
                       IF portfolio[k].id = existing[1].id
                       THEN [portfolio[k] EXCEPT !.amount = totalAmount,
                                                 !.averagePrice = newAvgPrice]
                       ELSE portfolio[k]]
       ELSE IF trade.type = "buy"
            THEN Append(portfolio, Position(NextPositionId, trade.userId, trade.symbol,
                                            trade.amount, trade.price))
            ELSE portfolio

\* the database runs updatePortfolio's write; createTrade sends
\* getUserPortfolio, the route answers with the trade
UpdatePortfolioWrite(c) ==
    /\ calls[c].pc = "writePosition"
    /\ portfolio' = UpdatedPortfolio(c)
    /\ calls' = [calls EXCEPT ![c] =
          IF calls[c].tail
          THEN [@ EXCEPT !.pc = "done", !.status = 200]
          ELSE [@ EXCEPT !.pc = "getUserPortfolio"]]
    /\ UNCHANGED <<now, quietVars, users, lastMarketData, portfolioUpdateInterval, portfolioPc,
                   portfolioTicks, portfolioHistory, trades, dbFaults>>

\* storage.ts 145-152: the holdings arrive, recordPortfolioValue runs to its
\* first await
CreateTradeHoldings(c) ==
    /\ calls[c].op = "createTrade"
    /\ calls[c].pc = "getUserPortfolio"
    /\ LET positions == GetUserPortfolio(calls[c].userId)
       IN calls' = [calls EXCEPT ![c] =
             [@ EXCEPT !.pc = "checkHistory", !.valued = positions,
                       !.totalValue = BookValue(positions)]]
    /\ UNCHANGED <<now, quietVars, users, lastMarketData, portfolioUpdateInterval, portfolioPc,
                   portfolioTicks, portfolio, portfolioHistory, trades, dbFaults>>

\* GET /api/portfolio/history/:userId: getPortfolioHistory reads the clock
\* and sends its first select
GetPortfolioHistoryCall(userId, timeframe) ==
    /\ calls["history"].pc = ""
    /\ calls' = [calls EXCEPT !["history"] =
                    [NoCall EXCEPT !.op = "getPortfolioHistory", !.pc = "selectTrades",
                                   !.userId = userId, !.timeframe = timeframe,
                                   !.startDate = StartDate(timeframe)]]
    /\ UNCHANGED <<now, quietVars, users, lastMarketData, portfolioUpdateInterval, portfolioPc,
                   portfolioTicks, portfolio, portfolioHistory, trades, dbFaults>>

\* storage.ts 241-248: the trades of the timeframe come back
GetPortfolioHistoryTrades(c) ==
    /\ calls[c].pc = "selectTrades"
    /\ calls' = [calls EXCEPT ![c] =
          [@ EXCEPT !.pc = "selectSnapshots",
                    !.trades = SortByTimestamp(SelectSeq(trades,
                        LAMBDA row : /\ row.userId = calls[c].userId
                                     /\ row.timestamp >= calls[c].startDate))]]
    /\ UNCHANGED <<now, quietVars, users, lastMarketData, portfolioUpdateInterval, portfolioPc,
                   portfolioTicks, portfolio, portfolioHistory, trades, dbFaults>>

\* storage.ts 250-286: the snapshots of the timeframe come back; with
\* neither trades nor snapshots getUserPortfolio is sent, otherwise the
\* timeline is returned
GetPortfolioHistorySnapshots(c) ==
    /\ calls[c].pc = "selectSnapshots"
    /\ LET snapshots == SortByTimestamp(SelectSeq(portfolioHistory,
                            LAMBDA row : /\ row.userId = calls[c].userId
                                         /\ row.timestamp >= calls[c].startDate))
       IN calls' = [calls EXCEPT ![c] =
             IF Len(snapshots) = 0 /\ Len(calls[c].trades) = 0
             THEN [@ EXCEPT !.pc = "getUserPortfolio", !.snapshots = snapshots]
             ELSE [@ EXCEPT !.pc = "done", !.snapshots = snapshots,
                            !.result = Timeline(calls[c].trades, snapshots,
                                                calls[c].userId)]]
    /\ UNCHANGED <<now, quietVars, users, lastMarketData, portfolioUpdateInterval, portfolioPc,
                   portfolioTicks, portfolio, portfolioHistory, trades, dbFaults>>

\* storage.ts 258-270: the holdings arrive; a positive book value is
\* recorded, otherwise the empty list is returned
GetPortfolioHistoryHoldings(c) ==
    /\ calls[c].op = "getPortfolioHistory"
    /\ calls[c].pc = "getUserPortfolio"
    /\ LET positions == GetUserPortfolio(calls[c].userId)
       IN calls' = [calls EXCEPT ![c] =
             IF BookValue(positions) > 0
             THEN [@ EXCEPT !.pc = "checkHistory", !.valued = positions,
                            !.totalValue = BookValue(positions)]
             ELSE [@ EXCEPT !.pc = "done", !.result = <<>>]]
    /\ UNCHANGED <<now, quietVars, users, lastMarketData, portfolioUpdateInterval, portfolioPc,
                   portfolioTicks, portfolio, portfolioHistory, trades, dbFaults>>

\* the rows of a seeding whose insert number `failed` was rejected
SeedRowsBut(c, variance, failed) ==
    SelectSeq(SeedRows(c, variance),
              LAMBDA row : row.timestamp # calls[c].stamp - SeedOffsets[failed])

\* a failed database operation that escapes updatePortfolioValue: the
\* rejection is nobody's, and the timer is gone with the process
DbFaultUncaught(c, failed) ==
    /\ calls[c].op = "updatePortfolioValue"
    /\ calls[c].pc \notin {"done", "failed"}
    /\ dbFaults < MaxFaults
    /\ dbFaults' = dbFaults + 1
    /\ calls' = [calls EXCEPT ![c].pc = "failed"]
    /\ portfolioUpdateInterval' =
          IF portfolioUpdateInterval = "set" THEN "cleared" ELSE portfolioUpdateInterval
    /\ UNCHANGED <<now, quietVars, users, lastMarketData, portfolioPc, portfolioTicks,
                   portfolio, portfolioHistory, trades>>

\* the database operation a run of updatePortfolioValue awaits is rejected
\* and caught (schema.ts 303-305, through storage.ts 220-223).  Of a seeding,
\* the other inserts still run.
DbFault(c, failed) ==
    /\ calls[c].op = "updatePortfolioValue"
    /\ calls[c].pc \notin {"done", "failed"}
    /\ dbFaults < MaxFaults
    /\ dbFaults' = dbFaults + 1
    /\ calls' = [calls EXCEPT ![c] = [@ EXCEPT !.pc = "done", !.caught = TRUE]]
    /\ portfolioHistory' =
          IF calls[c].pc = "seed"
          THEN portfolioHistory \o SeedRowsBut(c, 0, failed)
          ELSE portfolioHistory
    /\ UNCHANGED <<now, quietVars, users, lastMarketData, portfolioUpdateInterval, portfolioPc,
                   portfolioTicks, portfolio, trades>>

\* the portfolio loop from the construction on, with a failing database
ValuationNext ==
    \/ \E s \in Symbols : FirstSnapshot(s)
    \/ InitialValuationDone
    \/ UpdatePortfolioValueCall
    \/ \E c \in Callers : UpdatePortfolioValueHoldings(c)
    \/ \E c \in Callers : RecordPortfolioValueCheck(c)
    \/ \E c \in Callers, variance \in SeedVariances : RecordPortfolioValueWrite(c, variance)
    \/ \E c \in Callers, failed \in {1, Len(SeedOffsets)} : DbFault(c, failed)

ValuationSpec == ValuationInit /\ [][ValuationNext]_vars

\* the first tick of the portfolio timer
FirstPortfolioTick ==
    /\ calls["loop"].pc = ""
    /\ UpdatePortfolioValueCall

\* the callers of recordPortfolioValue side by side, one call each: a tick of
\* the portfolio loop, a POST /api/trades and a GET /api/portfolio/history
LedgerNext ==
    \/ FirstPortfolioTick
    \/ \E trade \in TradeInputs : CreateTradeCall(trade)
    \/ \E userId \in Users, timeframe \in Timeframes :
          GetPortfolioHistoryCall(userId, timeframe)
    \/ \E c \in Callers : UpdatePortfolioValueHoldings(c)
    \/ \E c \in Callers : RecordPortfolioValueCheck(c)
    \/ \E c \in Callers, variance \in SeedVariances : RecordPortfolioValueWrite(c, variance)
    \/ \E c \in Callers : CreateTradeInsert(c)
    \/ \E c \in Callers : UpdatePortfolioSelect(c)
    \/ \E c \in Callers : UpdatePortfolioWrite(c)
    \/ \E c \in Callers : CreateTradeHoldings(c)
    \/ \E c \in Callers : GetPortfolioHistoryTrades(c)
    \/ \E c \in Callers : GetPortfolioHistorySnapshots(c)
    \/ \E c \in Callers : GetPortfolioHistoryHoldings(c)

LedgerSpec == LedgerInit /\ [][LedgerNext]_vars

\* ------------------------------------------------ POST /api/trades

\* the requests that may be under way at once
Requests == {"trade", "other"}

\* the request bodies: a buy and two sells of user 1, the second sell of
\* more than any start holds, and a buy of a user that does not exist
TradeRequests ==
    {[userId |-> 1, symbol |-> "BTC/USD", amount |-> 1, price |-> 96000, type |-> "buy"],
     [userId |-> 1, symbol |-> "BTC/USD", amount |-> 1, price |-> 96000, type |-> "sell"],
     [userId |-> 1, symbol |-> "BTC/USD", amount |-> 3, price |-> 96000, type |-> "sell"],
     [userId |-> 3, symbol |-> "BTC/USD", amount |-> 1, price |-> 96000, type |-> "buy"]}

\* what user 1 may have left at the start: the default, or less than two buys
InitialBalances == {DEFAULT_BALANCE * AMOUNT_SCALE, 50000 * AMOUNT_SCALE}

\* what a user holds of a symbol, over all rows
Held(userId, symbol) ==
    LET F[k \in 0..Len(portfolio)] ==
            IF k = 0 THEN 0
            ELSE F[k - 1] + (IF portfolio[k].userId = userId /\ portfolio[k].symbol = symbol
                             THEN portfolio[k].amount ELSE 0)
    IN F[Len(portfolio)]

\* a lookup that finds every id, with the default balance
GetUserDefault(id) == <<[id |-> id, balance |-> DEFAULT_BALANCE * AMOUNT_SCALE]>>

\* storage.getUser
GetUser(id) == IF id \in DOMAIN users THEN <<[id |-> id, balance |-> users[id]]>> ELSE <<>>

\* routes.ts 57: tradeData.amount * tradeData.price
TradeTotal(trade) == trade.amount * trade.price

\* routes.ts 70-72
NewBalance(trade, currentBalance) ==
    IF trade.type = "buy"
    THEN currentBalance - TradeTotal(trade)
    ELSE currentBalance + TradeTotal(trade)

\* the server is up and no request is under way
TradeInit ==
    \E holdings \in InitialPortfolios, balance \in InitialBalances :
        /\ QuietInit
        /\ lastMarketData =
              [s \in Symbols |->
                  <<MarketData(s, InitialBasePrice[s], 0, now, <<>>, NoTechnicals)>>]
        /\ portfolioUpdateInterval = "set"
        /\ portfolioPc = "tracking"
        /\ portfolioTicks = 0
        /\ portfolio = holdings
        /\ portfolioHistory = <<>>
        /\ trades = <<>>
        /\ calls = [c \in Requests |-> NoCall]
        /\ dbFaults = 0
        /\ users = [userId \in Users |->
                       IF userId = TRACKED_USER THEN balance
                       ELSE DEFAULT_BALANCE * AMOUNT_SCALE]

\* routes.ts 46-51: the body is parsed and getUser is sent
PostTradeCall(c, trade) ==
    /\ calls[c].pc = ""
    /\ calls' = [calls EXCEPT ![c] =
                    [NoCall EXCEPT !.op = "createTrade", !.pc = "getUser", !.route = TRUE,
                                   !.userId = trade.userId, !.trade = <<trade>>,
                                   !.held = Held(trade.userId, trade.symbol)]]
    /\ UNCHANGED <<now, quietVars, lastMarketData, portfolioUpdateInterval, portfolioPc,
                   portfolioTicks, portfolio, portfolioHistory, trades, dbFaults, users>>

\* routes.ts 51-67: the user arrives; the request is answered 404 or 400,
\* or createTrade sends its insert
PostTradeUser(c) ==
    /\ calls[c].pc = "getUser"
    /\ LET user == GetUser(calls[c].userId)
           trade == calls[c].trade[1]
       IN calls' = [calls EXCEPT ![c] =
             IF user = <<>>
             THEN [@ EXCEPT !.pc = "done", !.status = 404]
             ELSE IF trade.type = "buy" /\ TradeTotal(trade) > user[1].balance
                  THEN [@ EXCEPT !.pc = "done", !.status = 400, !.user = user]
                  ELSE [@ EXCEPT !.pc = "insertTrade", !.user = user]]
    /\ UNCHANGED <<now, quietVars, lastMarketData, portfolioUpdateInterval, portfolioPc,
                   portfolioTicks, portfolio, portfolioHistory, trades, dbFaults, users>>

\* routes.ts 70-82, storage.ts 112-120: the balance is written from the
\* balance read at the start, and updatePortfolio sends its select
PostTradeBalance(c) ==
    /\ calls[c].pc = "updateUserBalance"
    /\ users' = [users EXCEPT ![calls[c].user[1].id] =
                    NewBalance(calls[c].trade[1], calls[c].user[1].balance)]
    /\ calls' = [calls EXCEPT ![c] = [@ EXCEPT !.pc = "selectPosition", !.tail = TRUE]]
    /\ UNCHANGED <<now, quietVars, lastMarketData, portfolioUpdateInterval, portfolioPc,
                   portfolioTicks, portfolio, portfolioHistory, trades, dbFaults>>

\* two POST /api/trades requests side by side
TradeNext ==
    \/ \E c \in Requests, trade \in TradeRequests : PostTradeCall(c, trade)
    \/ \E c \in Requests : PostTradeUser(c)
    \/ \E c \in Requests : CreateTradeInsert(c)
    \/ \E c \in Requests : UpdatePortfolioSelect(c)
    \/ \E c \in Requests : UpdatePortfolioWrite(c)
    \/ \E c \in Requests : CreateTradeHoldings(c)
    \/ \E c \in Requests : RecordPortfolioValueCheck(c)
    \/ \E c \in Requests, variance \in SeedVariances : RecordPortfolioValueWrite(c, variance)
    \/ \E c \in Requests : PostTradeBalance(c)

TradeSpec == TradeInit /\ [][TradeNext]_vars

\* ------------------------------------------------------ useMarketData

RECONNECT_DELAY == 3000
MaxSockets == 3

\* what no step of the browser changes
serverVars == <<now, lastMarketData, portfolioUpdateInterval, portfolioPc, portfolioTicks,
                hubVars, basePrice, priceHistory, analysisCache, tick, running,
                oracleCalls, fallbackAt, skipped, lastBroadcast, appended, published,
                wire, hung, detected, simulatedDataInterval, cleanups, ledgerVars>>

\* WebSocket.close(): a socket that is not closed yet starts closing, its
\* close event comes later
CloseSocket(sockets, k) ==
    IF sockets[k].readyState \in {"CONNECTING", "OPEN"}
    THEN [sockets EXCEPT ![k].readyState = "CLOSING"]
    ELSE sockets

\* part_001 49-110: connect() of the effect that ran with the symbol
connect(h, symbol) ==
    IF ~ h.mounted
    THEN h
    ELSE LET sockets == IF h.wsRef # 0 /\ h.sockets[h.wsRef].readyState = "OPEN"
                        THEN CloseSocket(h.sockets, h.wsRef)
                        ELSE h.sockets
         IN [h EXCEPT !.sockets = Append(sockets, [readyState |-> "CONNECTING",
                                                   symbol |-> symbol]),
                      !.wsRef = Len(sockets) + 1]

\* an onclose that does not look at mounted
oncloseUnmounted(h, k) ==
    [h EXCEPT !.wsRef = 0,
              !.reconnectTimeoutRef = h.scheduled + 1,
              !.timers = @ \cup {[id |-> h.scheduled + 1, due |-> h.clock + RECONNECT_DELAY,
                                  symbol |-> h.sockets[k].symbol]},
              !.scheduled = @ + 1]

\* part_001 89-103: ws.onclose of socket k
onclose(h, k) ==
    IF ~ h.mounted
    THEN h
    ELSE IF h.reconnectTimeoutRef = 0
         THEN [h EXCEPT !.wsRef = 0,
                        !.reconnectTimeoutRef = h.scheduled + 1,
                        !.timers = @ \cup {[id |-> h.scheduled + 1,
                                            due |-> h.clock + RECONNECT_DELAY,
                                            symbol |-> h.sockets[k].symbol]},
                        !.scheduled = @ + 1]
         ELSE [h EXCEPT !.wsRef = 0]

\* part_001 68-79: ws.onmessage of socket k with a snapshot of symbol s
onmessage(h, k, s) ==
    IF h.mounted /\ s = h.sockets[k].symbol
    THEN [h EXCEPT !.marketData = <<s>>]
    ELSE h

\* part_001 114-124: the cleanup of the effect
EffectCleanup(h) ==
    [h EXCEPT !.mounted = FALSE,
              !.sockets = IF h.wsRef # 0 THEN CloseSocket(h.sockets, h.wsRef) ELSE h.sockets,
              !.wsRef = 0,
              !.timers = {t \in h.timers : t.id # h.reconnectTimeoutRef},
              !.reconnectTimeoutRef = 0,
              !.cleaned = TRUE]

HookInit ==
    /\ QuietInit
    /\ lastMarketData = [s \in Symbols |-> <<>>]
    /\ portfolioUpdateInterval = "null"
    /\ portfolioPc = "awaiting"
    /\ portfolioTicks = 0
    /\ NoStorageCalls

\* the component is rendered for the first time: both effects run
Render(symbol) ==
    /\ ~ hook.rendered
    /\ ~ hook.cleaned
    /\ Len(hook.sockets) < MaxSockets
    /\ hook' = connect([hook EXCEPT !.rendered = TRUE, !.symbol = symbol, !.mounted = TRUE],
                       symbol)
    /\ UNCHANGED serverVars

\* the component is rendered with another symbol: the cleanup of the effect
\* that depends on the symbol runs, then the effect runs again
SymbolChange(symbol) ==
    /\ hook.rendered
    /\ symbol # hook.symbol
    /\ Len(hook.sockets) < MaxSockets
    /\ hook' = connect([EffectCleanup(hook) EXCEPT !.symbol = symbol], symbol)
    /\ UNCHANGED serverVars

\* the component is removed: the cleanups of both effects run
Unmount ==
    /\ hook.rendered
    /\ hook' = [EffectCleanup([hook EXCEPT !.mounted = FALSE]) EXCEPT !.rendered = FALSE]
    /\ UNCHANGED serverVars

\* the connection of socket k is made: ws.onopen
SocketOpen(k) ==
    /\ k \in DOMAIN hook.sockets
    /\ hook.sockets[k].readyState = "CONNECTING"
    /\ hook' = [hook EXCEPT !.sockets[k].readyState = "OPEN"]
    /\ UNCHANGED serverVars

\* a snapshot of symbol s arrives on socket k
SocketMessage(k, s) ==
    /\ k \in DOMAIN hook.sockets
    /\ hook.sockets[k].readyState = "OPEN"
    /\ hook' = onmessage(hook, k, s)
    /\ UNCHANGED serverVars

\* the server or the network ends socket k: its close event
SocketDrop(k) ==
    /\ k \in DOMAIN hook.sockets
    /\ hook.sockets[k].readyState \in {"CONNECTING", "OPEN"}
    /\ hook' = onclose([hook EXCEPT !.sockets[k].readyState = "CLOSED"], k)
    /\ UNCHANGED serverVars

\* the close event of a socket the hook has closed
SocketCloseEvent(k) ==
    /\ k \in DOMAIN hook.sockets
    /\ hook.sockets[k].readyState = "CLOSING"
    /\ hook' = onclose([hook EXCEPT !.sockets[k].readyState = "CLOSED"], k)
    /\ UNCHANGED serverVars

\* part_001 96-101: a reconnect timer is due and its callback runs
ReconnectFire ==
    /\ Len(hook.sockets) < MaxSockets
    /\ \E t \in hook.timers :
          hook' = LET h == [hook EXCEPT !.timers = @ \ {t}, !.reconnectTimeoutRef = 0,
                                       !.clock = t.due]
                  IN IF h.mounted THEN connect(h, t.symbol) ELSE h
    /\ UNCHANGED serverVars

HookNext ==
    \/ \E symbol \in Symbols : Render(symbol)
    \/ \E symbol \in Symbols : SymbolChange(symbol)
    \/ Unmount
    \/ \E k \in 1..MaxSockets : SocketOpen(k)
    \/ \E k \in 1..MaxSockets, s \in Symbols : SocketMessage(k, s)
    \/ \E k \in 1..MaxSockets : SocketDrop(k)
    \/ \E k \in 1..MaxSockets : SocketCloseEvent(k)
    \/ ReconnectFire

HookSpec == HookInit /\ [][HookNext]_vars

\* ===================================================================== claims

Recommendations == OracleResults \cup {DefaultResult}

\* the oracle requests of symbol s that are awaiting their answer
InFlight(s) == {t \in TickIds : tick[t].pc = "oracle" /\ SymOf(t) = s}

\* callback t leaves analyzeMarket's cache check in this step
LeavesCacheCheck(t) == tick[t].pc = "ai" /\ tick'[t].pc # "ai"

\* callback t broadcasts in this step
Broadcasts(t) == tick[t].pc = "build" /\ tick'[t].pc # "build"

\* C1: at any time at most one oracle request is in flight per symbol.
SingleFlight == \A s \in Symbols : Cardinality(InFlight(s)) <= 1

\* C2: a call that finds a cache entry younger than 10 seconds returns that
\* entry's value, issues no oracle request and leaves the cache as it is.
FreshEntryServed ==
    [][\A t \in TickIds :
        LET s == SymOf(t)
        IN (/\ LeavesCacheCheck(t)
            /\ analysisCache[s] # <<>>
            /\ now - analysisCache[s][1].timestamp < 10000)
           => /\ tick'[t].pc = "build"
              /\ tick'[t].aiResult = <<analysisCache[s][1].result>>
              /\ oracleCalls' = oracleCalls
              /\ analysisCache' = analysisCache]_vars

\* C2 witness: the second callback, started one second after the first,
\* holds the value the first one cached; the oracle was asked once.
FreshEntryServedWitness ==
    /\ tick[2].pc = "build"
    /\ tick[2].i = 1
    /\ tick[1].pc = "done"
    /\ oracleCalls["BTC/USD"] = 1
    /\ now - analysisCache["BTC/USD"][1].timestamp = 1000
    /\ tick[2].aiResult = <<analysisCache["BTC/USD"][1].result>>

\* C3: once the fallback has been stored for a symbol, every call for that
\* symbol within 10 seconds of the store returns the fallback and issues no
\* oracle request.
FallbackPersists ==
    [][\A t \in TickIds :
        LET s == SymOf(t)
        IN (/\ LeavesCacheCheck(t)
            /\ fallbackAt[s] # <<>>
            /\ now - fallbackAt[s][1] < 10000)
           => /\ tick'[t].aiResult = <<DefaultResult>>
              /\ oracleCalls' = oracleCalls]_vars

\* C4: analyzeMarket always resolves with a recommendation: no symbol is
\* skipped by the tick's catch, and every message on the wire carries a
\* recommendation.
OracleFailureRecovered ==
    /\ skipped = {}
    /\ \A t \in TickIds : tick[t].pc = "build" => tick[t].aiResult \in {<<r>> : r \in Recommendations}
    /\ \A k \in DOMAIN wire : wire[k].data.aiAnalysis \in Recommendations

\* C4 witness: after a failed oracle request the symbol's snapshot has been
\* sent to a subscriber, carrying the fallback.
OracleFailureRecoveredWitness ==
    \E k \in DOMAIN wire :
        /\ fallbackAt[wire[k].data.symbol] # <<>>
        /\ wire[k].data.aiAnalysis = DefaultResult
        /\ running # 0

\* the last n entries of a sequence
LastN(seq, n) == SubSeq(seq, Len(seq) - n + 1, Len(seq))

Min(a, b) == IF a < b THEN a ELSE b

\* C5: every history holds at most 100 prices, the last min(n, 100) of the
\* n appended, in append order.
HistoryBounded ==
    \A s \in Symbols :
        /\ Len(priceHistory[s]) <= 100
        /\ priceHistory[s] = LastN(appended[s], Min(Len(appended[s]), 100))

\* C5 witness: 150 appends have left the last 100.
HistoryBoundedWitness ==
    \E s \in Symbols :
        /\ Len(appended[s]) = 150
        /\ Len(priceHistory[s]) = 100
        /\ priceHistory[s][1] = appended[s][51]


\* the step just taken sent `data` to socket c, once
Delivered(c, data) ==
    Cardinality({k \in DOMAIN wire' : wire'[k].to = c /\ wire'[k].data = data}) = 1

KnownSymbols == {s \in Symbols : lastBroadcast[s] # <<>>}

\* C6: a socket that connects is sent, in the same step, exactly one message
\* per symbol that has been broadcast, and that message is the last one
\* broadcast for the symbol.
CatchUpVerbatim ==
    [][\A c \in Channels :
        (readyState[c] = "NONE" /\ readyState'[c] = "OPEN")
        => /\ Len(wire') = Cardinality(KnownSymbols)
           /\ \A k \in DOMAIN wire' : wire'[k].to = c
           /\ \A s \in KnownSymbols : Delivered(c, lastBroadcast[s][1])]_vars

\* C6 witness: a socket has connected while the first callback awaits the
\* oracle for its second symbol, and was sent the first symbol's snapshot.
CatchUpVerbatimWitness ==
    /\ tick[1].pc = "oracle"
    /\ tick[1].i = 2
    /\ tick[2].pc = "idle"
    /\ running = 0
    /\ Len(wire) = 1
    /\ wire[1].to \in clients
    /\ wire[1].data = lastBroadcast["BTC/USD"][1]

\* C7 as claimed: a broadcast sends the snapshot to every socket of the set.
PushedToEverySubscriber ==
    [][\A t \in TickIds :
        Broadcasts(t) =>
            \A c \in clients : Delivered(c, lastBroadcast'[SymOf(t)][1])]_vars

\* C7 as amended: a broadcast sends the snapshot to the sockets of the set
\* that are OPEN and to no other; an OPEN socket whose send throws is
\* removed from the set instead.
PushedToEveryOpenSubscriber ==
    [][\A t \in TickIds :
        Broadcasts(t) =>
            LET data == lastBroadcast'[SymOf(t)][1]
            IN /\ \A c \in clients :
                    readyState[c] = "OPEN" =>
                        IF c \in faulty THEN c \notin clients' ELSE Delivered(c, data)
               /\ \A k \in DOMAIN wire' :
                    /\ wire'[k].to \in clients
                    /\ readyState[wire'[k].to] = "OPEN"
                    /\ wire'[k].data = data]_vars

\* C7 witness: a broadcast has reached one socket and passed over another
\* that is in the set but closing.
PushedToEveryOpenSubscriberWitness ==
    \E c, d \in clients :
        /\ running # 0
        /\ readyState[d] = "CLOSING"
        /\ Len(wire) = 1
        /\ wire[1].to = c
        /\ wire[1].data = lastBroadcast[wire[1].data.symbol][1]

\* C8 as claimed: a socket whose send throws during a broadcast is removed,
\* is sent nothing afterwards, and the broadcast reaches every other socket
\* of the set.
FailedSendIsolated ==
    [][/\ \A t \in TickIds :
            Broadcasts(t) =>
                \A c \in clients :
                    (readyState[c] = "OPEN" /\ c \in faulty)
                    => /\ c \notin clients'
                       /\ \A d \in clients \ {c} :
                            Delivered(d, lastBroadcast'[SymOf(t)][1])
       /\ \A c \in Channels :
            (c \in faulty /\ c \notin clients)
            => /\ c \notin clients'
               /\ \A k \in DOMAIN wire' : wire'[k].to # c]_vars

\* C8 as amended: ... and the broadcast reaches every other socket of the
\* set that is OPEN and whose own send does not throw.
FailedSendIsolatedOpen ==
    [][/\ \A t \in TickIds :
            Broadcasts(t) =>
                \A c \in clients :
                    (readyState[c] = "OPEN" /\ c \in faulty)
                    => /\ c \notin clients'
                       /\ \A d \in clients \ {c} :
                            (readyState[d] = "OPEN" /\ d \notin faulty)
                            => Delivered(d, lastBroadcast'[SymOf(t)][1])
       /\ \A c \in Channels :
            (c \in faulty /\ c \notin clients)
            => /\ c \notin clients'
               /\ \A k \in DOMAIN wire' : wire'[k].to # c]_vars

\* C8 witness: a broadcast has removed a socket whose send threw and has
\* reached the other socket.
FailedSendIsolatedOpenWitness ==
    \E c, d \in Channels :
        /\ running # 0
        /\ c \in faulty
        /\ readyState[c] = "OPEN"
        /\ c \notin clients
        /\ c \notin handled
        /\ d \in clients
        /\ Len(wire) = 1
        /\ wire[1].to = d

\* C9: a subscriber that has stalled is eventually removed from the set.
StalledEventuallyRemoved ==
    \A c \in Channels : (c \in stalled /\ c \in clients) ~> (c \notin clients)

\* C10: a socket whose "close" or "error" handler has run is not in the set
\* and is sent nothing; whatever is sent goes to a socket of the set.
DeliveredOnlyToConnected ==
    /\ \A c \in handled :
        /\ c \notin clients
        /\ \A k \in DOMAIN wire : wire[k].to # c
    /\ \A k \in DOMAIN wire :
        /\ wire[k].to \in clients
        /\ readyState[wire[k].to] = "OPEN"

\* C10 witness: after one socket's close or error was handled, a broadcast
\* has reached the other socket.
DeliveredOnlyToConnectedWitness ==
    \E c \in handled, d \in clients :
        /\ running # 0
        /\ lastBroadcast[SymbolOrder[1]] # <<>>
        /\ Len(wire) = 1
        /\ wire[1].to = d

\* C11: within one tick a fault thrown while a symbol is processed is
\* caught: that symbol gets no snapshot from the tick, and every other
\* symbol is still processed and broadcast by the same tick.  When a
\* callback has returned, each symbol was either skipped by its catch or
\* broadcast by it, never both and never neither.
FaultSkipsOnlyItsSymbol ==
    \A t \in TickIds :
        tick[t].pc = "done" =>
            \A s \in Symbols : (<<t, s>> \in skipped) # (<<t, s>> \in published)

\* C11 witness: a callback has returned after a fault on its first symbol
\* and a broadcast of its second.
FaultSkipsOnlyItsSymbolWitness ==
    \E t \in TickIds :
        /\ tick[t].pc = "done"
        /\ <<t, SymbolOrder[1]>> \in skipped
        /\ <<t, SymbolOrder[2]>> \in published

\* C12: a callback whose oracle request for one symbol hangs still gets to
\* broadcast a snapshot of every other symbol.
HungCallIsolated ==
    \A t \in 1..MaxFeedTicks : \A s \in Symbols :
        (t \in hung /\ SymOf(t) # s) ~> (<<t, s>> \in published)

\* C13: after cleanup() has returned, no market tick and no portfolio tick
\* starts, whenever it was called after construction.
NoTickAfterCleanup ==
    [][cleanups > 0 =>
          /\ \A t \in TickIds : tick[t].pc = "idle" => tick'[t].pc = "idle"
          /\ portfolioTicks' = portfolioTicks]_vars

\* ticks started so far: the clock has advanced by one period per tick
TicksStarted == now \div TICK_PERIOD

\* the started callbacks that have not yet reached their append for s
BeforeAppend(s) ==
    {t \in TickIds :
        /\ tick[t].pc \notin {"idle", "done"}
        /\ \/ SymbolOrder[tick[t].i] # s /\ \E k \in tick[t].i + 1..Len(SymbolOrder) :
                                                SymbolOrder[k] = s
           \/ SymbolOrder[tick[t].i] = s /\ tick[t].pc = "perturb"}

\* callbacks that have passed their append step for s
PassedAppend(s) == TicksStarted - Cardinality(BeforeAppend(s))

HistoryCountsAppends ==
    \A s \in Symbols :
        Len(priceHistory[s]) = Min(PassedAppend(s), HISTORY_CAPACITY)

\* C14: with interleaved tick callbacks no append is lost or duplicated:
\* after k callbacks have passed their append step for a symbol its history
\* holds min(k, 100) entries, and a step changes the history of no symbol
\* other than the one whose price it appends.
AppendsNeitherLostNorShared ==
    /\ HistoryCountsAppends
    /\ [][/\ HistoryCountsAppends'
          /\ \A s \in Symbols :
                priceHistory'[s] # priceHistory[s] =>
                    \E t \in TickIds :
                        /\ tick[t].pc = "perturb" /\ tick'[t].pc = "ai"
                        /\ SymOf(t) = s
                        /\ \A o \in Symbols \ {s} : priceHistory'[o] = priceHistory[o]]_vars

\* C14 witness: two callbacks are in flight on the first symbol, both past
\* their append, and the history has been trimmed to its capacity.
AppendsNeitherLostNorSharedWitness ==
    /\ Cardinality(InFlight(SymbolOrder[1])) = 2
    /\ PassedAppend(SymbolOrder[1]) > HISTORY_CAPACITY
    /\ Len(priceHistory[SymbolOrder[1]]) = HISTORY_CAPACITY

\* C15: the pattern list, the volatility metrics and the oracle context of
\* one iteration are computed from the same history contents, the history
\* as the iteration's own append left it (its newest entry is the
\* iteration's price), whatever other callbacks append meanwhile.
SnapshotInputsConsistent ==
    \A t \in TickIds :
        tick[t].pc \in {"ai", "oracle", "build"} =>
            LET own == tick[t].own
            IN /\ own # <<>>
               /\ own[Len(own)] = tick[t].newPrice
               /\ \/ tick[t].technicals.patterns = DetectPatterns(own, "throw")
                  \/ tick[t].technicals.patterns = DetectPatterns(own, "ok")
               /\ tick[t].technicals.volatility = CalculateVolatility(own)
               /\ tick[t].context # <<>> => tick[t].context[1] = own

\* C15 witness: a callback is about to build its snapshot from analyses of
\* a full window and an oracle answer, while another callback has already
\* appended to the same history.
SnapshotInputsConsistentWitness ==
    \E t \in TickIds :
        /\ tick[t].pc = "build"
        /\ tick[t].outcome = "ok"
        /\ tick[t].technicals.volatility # <<>>
        /\ tick[t].technicals.patterns # <<>>
        /\ priceHistory[SymOf(t)] # tick[t].own

\* C16: per symbol, the timestamps of the snapshots are non-decreasing in
\* the order they are broadcast and stored, also when callbacks overlap and
\* complete out of order.
TimestampsMonotone ==
    [][\A s \in Symbols :
          /\ (lastBroadcast[s] # <<>> /\ lastBroadcast'[s] # <<>>) =>
                lastBroadcast'[s][1].timestamp >= lastBroadcast[s][1].timestamp
          /\ (lastMarketData[s] # <<>> /\ lastMarketData'[s] # <<>>) =>
                lastMarketData'[s][1].timestamp >= lastMarketData[s][1].timestamp]_vars

\* C16 witness: the first callback has just broadcast a symbol that the
\* second callback, started later, had broadcast before it.
TimestampsMonotoneWitness ==
    /\ <<1, SymbolOrder[1]>> \in published
    /\ <<2, SymbolOrder[1]>> \in published
    /\ lastBroadcast[SymbolOrder[1]] # <<>>
    /\ lastBroadcast[SymbolOrder[1]][1].price = tick[1].newPrice
    /\ tick[1].i = 2 /\ tick[1].pc = "perturb"

\* callback t has the result of a failed oracle request in hand
HoldsFailure(t) == tick[t].pc = "build" /\ tick[t].outcome \in {"throw", "unparsable"}

\* C17 as stated: when the oracle fails, the value cached and returned is
\* {hold, 0.5, ["insufficient data"], neutral, medium}.
FallbackInsufficientData ==
    \A t \in TickIds :
        HoldsFailure(t) =>
            LET fallback == [recommendation |-> "hold", confidence |-> 50,
                             reasoning |-> <<"insufficient data">>,
                             marketSentiment |-> "neutral", riskLevel |-> "medium"]
            IN /\ tick[t].aiResult = <<fallback>>
               /\ analysisCache[SymOf(t)] = <<[result |-> fallback, timestamp |-> now]>>

\* C17: when the oracle fails, the value cached and returned is
\* {hold, 0.5, ["Technical analysis system is calibrating"], neutral,
\* medium} (confidences are in hundredths).
FallbackCalibrating ==
    \A t \in TickIds :
        HoldsFailure(t) =>
            LET fallback == [recommendation |-> "hold", confidence |-> 50,
                             reasoning |-> <<"Technical analysis system is calibrating">>,
                             marketSentiment |-> "neutral", riskLevel |-> "medium"]
            IN /\ tick[t].aiResult = <<fallback>>
               /\ analysisCache[SymOf(t)] = <<[result |-> fallback, timestamp |-> now]>>

\* C17 witness: a callback resumes from an oracle answer that did not parse.
FallbackCalibratingWitness ==
    \E t \in TickIds : tick[t].pc = "build" /\ tick[t].outcome = "unparsable"

\* C18: a cache entry is served while it is less than 10 seconds old; the
\* first call made when it is 10 seconds old or more requests the oracle,
\* and the end of that request replaces the entry; the cache holds at most
\* one entry per symbol.
EntryExpiresAndIsReplaced ==
    [][/\ \A t \in TickIds :
            LET s == SymOf(t)
                entry == analysisCache[s]
            IN /\ (LeavesCacheCheck(t) /\ entry # <<>>
                      /\ now - entry[1].timestamp >= CACHE_DURATION) =>
                     /\ tick'[t].pc = "oracle"
                     /\ oracleCalls'[s] = oracleCalls[s] + 1
               /\ (LeavesCacheCheck(t) /\ entry # <<>>
                      /\ now - entry[1].timestamp < CACHE_DURATION) =>
                     /\ tick'[t].pc = "build"
                     /\ tick'[t].aiResult = <<entry[1].result>>
                     /\ oracleCalls'[s] = oracleCalls[s]
               /\ (tick[t].pc = "oracle" /\ tick'[t].pc = "build") =>
                     analysisCache'[s] =
                         <<[result |-> tick'[t].aiResult[1], timestamp |-> now']>>
       /\ \A s \in Symbols :
            /\ Len(analysisCache'[s]) <= 1
            /\ analysisCache'[s] # analysisCache[s] =>
                  \E t \in TickIds : /\ SymOf(t) = s
                                     /\ tick[t].pc = "oracle"
                                     /\ tick'[t].pc = "build"]_vars

\* ticks that had completed when the behaviour started
TicksBefore == TicksStarted - Cardinality({u \in TickIds : tick[u].pc # "idle"})

\* C18 witness: a callback started exactly 10 seconds after the entry was
\* stored has requested the oracle, and the answer has replaced the entry.
EntryExpiresAndIsReplacedWitness ==
    \E t \in TickIds :
        /\ tick[t].pc = "build"
        /\ tick[t].outcome = "ok"
        /\ tick[t].firedAt - LastRefresh(TicksBefore) = CACHE_DURATION
        /\ analysisCache[SymOf(t)][1].timestamp = now

\* C19: detectPatterns returns the empty list for every history shorter
\* than 30.
ShortHistoryNoPatterns ==
    (detected # <<>> /\ detected[1].call = "detectPatterns"
        /\ Len(detected[1].prices) < PATTERN_WINDOW) =>
            detected[1].result = <<>>

\* C19 witness: detectPatterns has returned for a zigzag one price short of
\* the window.
ShortHistoryNoPatternsWitness ==
    /\ detected # <<>>
    /\ detected[1].call = "detectPatterns"
    /\ detected[1].prices = Shaped("zigzag", PATTERN_WINDOW - 1)
    /\ detected[1].result = <<>>

\* C20: a broadcast snapshot carries pattern analysis or volatility metrics
\* only if the symbol's history held at least 30 prices when it was
\* analysed; with fewer, both fields are absent and the snapshot is
\* broadcast all the same: no iteration is skipped, and a callback that
\* returns has broadcast every symbol.
AnalysisNeedsFullWindow ==
    [][/\ \A t \in TickIds :
            /\ Broadcasts(t) =>
                  LET data == lastBroadcast'[SymOf(t)][1]
                  IN /\ <<t, SymOf(t)>> \in published'
                     /\ Len(tick[t].own) < PATTERN_WINDOW =>
                           /\ data.patternAnalysis = <<>>
                           /\ data.volatilityMetrics = <<>>
            /\ (tick[t].pc # "done" /\ tick'[t].pc = "done") =>
                  \A s \in Symbols : <<t, s>> \in published'
       /\ skipped' = {}]_vars

\* C20 witness: the first callback has broadcast the first symbol when its
\* history held 29 prices, with neither field.
AnalysisNeedsFullWindowWitness ==
    /\ Len(priceHistory[SymbolOrder[1]]) = PATTERN_WINDOW - 1
    /\ <<1, SymbolOrder[1]>> \in published
    /\ lastBroadcast[SymbolOrder[1]][1].price = tick[1].newPrice
    /\ lastBroadcast[SymbolOrder[1]][1].patternAnalysis = <<>>
    /\ lastBroadcast[SymbolOrder[1]][1].volatilityMetrics = <<>>

\* C21: for a window whose last 30 prices are all equal (max = min),
\* detectPatterns emits no pattern.
FlatWindowNoPatterns ==
    (/\ detected # <<>>
     /\ detected[1].call = "detectPatterns"
     /\ Len(detected[1].prices) >= PATTERN_WINDOW
     /\ LET window == SliceLast(detected[1].prices, PATTERN_WINDOW)
        IN \A k \in DOMAIN window : window[k] = window[1]) =>
            detected[1].result = <<>>

\* C21 witness: the convolutions were computed for a history whose last 30
\* prices are equal after an earlier, different price, and nothing came out.
FlatWindowNoPatternsWitness ==
    /\ detected # <<>>
    /\ detected[1].call = "detectPatterns"
    /\ detected[1].prices = Shaped("settled", PATTERN_WINDOW + 1)
    /\ detected[1].tf = "ok"
    /\ detected[1].result = <<>>

\* the kernel whose responses give patterns of the type
KernelOf(type) == IF type = "triangle" THEN TriangleKernel ELSE HsKernel

RiskComputed == detected # <<>> /\ detected[1].call = "calculateVolatility"
                    /\ detected[1].risk # <<>>

\* C24: the division by zero in expected shortfall is never reached:
\* whenever calculateVolatility computes metrics (a history of 30 to 100
\* prices, so n = 29..99 returns), varIndex = floor(n * 0.05) is at least 1
\* and the averaged tail is non-empty.
ShortfallDivisorPositive ==
    RiskComputed =>
        LET risk == detected[1].risk[1]
        IN /\ risk.returns = Len(detected[1].prices) - 1
           /\ risk.returns >= VOLATILITY_WINDOW - 1
           /\ risk.varIndex >= 1
           /\ risk.tailReturns # <<>>
           /\ ~("nan" \in DOMAIN risk.expectedShortfall)

\* C24 witness: metrics were computed from exactly 30 prices, the shortest
\* history that gets there, with a tail of one return.
ShortfallDivisorPositiveWitness ==
    /\ RiskComputed
    /\ Len(detected[1].prices) = VOLATILITY_WINDOW
    /\ detected[1].risk[1].varIndex = 1
    /\ Len(detected[1].risk[1].tailReturns) = 1

\* x >= y
AtLeast(x, y) ==
    /\ ~("nan" \in DOMAIN x)
    /\ ~("nan" \in DOMAIN y)
    /\ ~Less(x, y)

\* the metrics are what the claim says they are: the returns in ascending
\* order, varIndex = floor(n * 0.05), valueAtRisk the negated return at
\* position varIndex and expectedShortfall the negated mean of the returns
\* at positions 0..varIndex-1
RiskAsDefined(prices, risk) ==
    LET returns == Returns(prices)
        sorted == risk.sortedReturns
        n == Len(returns)
    IN /\ Len(sorted) = n
       /\ \A i \in DOMAIN returns :
             Cardinality({j \in DOMAIN sorted : sorted[j] = returns[i]})
                 = Cardinality({j \in DOMAIN returns : returns[j] = returns[i]})
       /\ \A i \in 1..(n - 1) : ~Less(sorted[i + 1], sorted[i])
       /\ 100 * risk.varIndex <= 5 * n
       /\ 5 * n < 100 * (risk.varIndex + 1)
       /\ risk.valueAtRisk = Negate(sorted[risk.varIndex + 1])
       /\ risk.expectedShortfall
             = Negate(DividedBy(Sum(sorted, risk.varIndex), risk.varIndex))

\* C25 as stated: with the returns sorted ascending and varIndex =
\* floor(n * 0.05), valueAtRisk is the negated return at position varIndex
\* and expectedShortfall the negated mean of the returns at positions
\* 0..varIndex-1; consequently expectedShortfall >= valueAtRisk for every
\* input.
ShortfallAtLeastValueAtRisk ==
    RiskComputed =>
        /\ RiskAsDefined(detected[1].prices, detected[1].risk[1])
        /\ AtLeast(detected[1].risk[1].expectedShortfall,
                   detected[1].risk[1].valueAtRisk)

\* C25, amended: the metrics are as stated, and expectedShortfall >=
\* valueAtRisk whenever at most two returns are averaged (varIndex <= 2,
\* fewer than 60 returns); from three on the rounding of the sum can leave
\* expectedShortfall below valueAtRisk.
ShortfallAtLeastValueAtRiskUpToTwo ==
    RiskComputed =>
        /\ RiskAsDefined(detected[1].prices, detected[1].risk[1])
        /\ detected[1].risk[1].varIndex <= 2 =>
              AtLeast(detected[1].risk[1].expectedShortfall,
                      detected[1].risk[1].valueAtRisk)

\* C25 witness: two returns were averaged, of a history whose returns
\* differ, and expectedShortfall came out above valueAtRisk.
ShortfallAtLeastValueAtRiskUpToTwoWitness ==
    /\ RiskComputed
    /\ detected[1].risk[1].varIndex = 2
    /\ Len(detected[1].risk[1].tailReturns) = 2
    /\ Less(detected[1].risk[1].valueAtRisk,
            detected[1].risk[1].expectedShortfall)

\* the price of a symbol in the latest snapshot map, 0 without a snapshot
SnapshotPrice(symbol) ==
    IF lastMarketData[symbol] = <<>> THEN 0 ELSE lastMarketData[symbol][1].price

\* the holdings with the given row ids at the snapshot prices
RECURSIVE HoldingsValue(_)
HoldingsValue(ids) ==
    IF ids = {} THEN 0
    ELSE LET id == CHOOSE i \in ids : TRUE
             row == CHOOSE r \in {portfolio[k] : k \in DOMAIN portfolio} : r.id = id
         IN row.amount * SnapshotPrice(row.symbol) + HoldingsValue(ids \ {id})

\* C26: when the holdings reach a run of the portfolio loop, the run does not
\* abort, its total is the sum over the user's holdings of quantity times the
\* symbol's price in the latest snapshot map, a symbol without snapshot
\* counting 0, and that total is what the run records
TotalIsHoldingsAtSnapshotPrices ==
    [][\A c \in Callers :
          /\ calls[c].op = "updatePortfolioValue"
          /\ calls[c].pc = "getUserPortfolio"
          /\ calls'[c].pc # "getUserPortfolio"
          /\ ~ calls'[c].caught
          => LET ids == {portfolio[k].id : k \in {j \in DOMAIN portfolio :
                                              portfolio[j].userId = calls[c].userId}}
             IN IF ids = {}
                THEN calls'[c].pc = "done"
                ELSE /\ calls'[c].pc = "checkHistory"
                     /\ calls'[c].totalValue = HoldingsValue(ids)
                     /\ \A variance \in SeedVariances :
                           \A k \in DOMAIN RecordedRows(c, variance)' :
                              RecordedRows(c, variance)'[k].totalValue = HoldingsValue(ids)
      ]_vars

\* a run has valued 0.5 of one symbol at 95000, and a second holding whose
\* symbol has no snapshot, at 47500
TotalIsHoldingsAtSnapshotPricesWitness ==
    \E c \in Callers :
        /\ calls[c].op = "updatePortfolioValue"
        /\ calls[c].pc = "checkHistory"
        /\ \E k \in DOMAIN calls[c].valued :
              /\ 2 * calls[c].valued[k].amount = AMOUNT_SCALE
              /\ SnapshotPrice(calls[c].valued[k].symbol) = 95000
        /\ \E k \in DOMAIN calls[c].valued :
              SnapshotPrice(calls[c].valued[k].symbol) = 0
        /\ calls[c].totalValue = 47500 * AMOUNT_SCALE

\* the seeded valuation points of a user
SeededPoints(userId) ==
    {k \in DOMAIN portfolioHistory :
        portfolioHistory[k].userId = userId /\ portfolioHistory[k].seeded}

\* C27: seeding happens at most once per user: whatever the interleaving of
\* the recordPortfolioValue calls of the portfolio loop, createTrade and
\* getPortfolioHistory, a user never has more than 15 seeded points
SeededAtMostOnce ==
    \A userId \in Users : Cardinality(SeededPoints(userId)) <= Len(SeedOffsets)

\* what a trade row and a valuation row show as in the history
TradePoint(row) ==
    [timestamp |-> row.timestamp,
     totalValue |-> [base |-> row.amount * row.price, variance |-> 0]]

SnapshotPoint(row) ==
    [timestamp |-> row.timestamp,
     totalValue |-> [base |-> row.totalValue, variance |-> row.variance]]

\* how many rows of a table show as the point
PointCount(rows, Shown(_), point) ==
    Cardinality({k \in DOMAIN rows : Shown(rows[k]) = point})

\* the rows of a table that belong to the user and the timeframe of call c
InTimeframe(rows, c) ==
    SelectSeq(rows, LAMBDA row : /\ row.userId = calls[c].userId
                                 /\ row.timestamp >= calls[c].startDate)

\* C28: getPortfolioHistory reads every trade of the user inside the
\* timeframe and returns one point per trade it read and one per valuation
\* snapshot of the user inside the timeframe, none dropped or merged, ordered
\* by non-decreasing timestamp, with ids equal to the 1-based position
HistoryIsEveryPointInOrder ==
    [][\A c \in Callers :
          /\ calls[c].pc = "selectTrades" /\ calls'[c].pc = "selectSnapshots"
             => \A k \in DOMAIN trades :
                   trades[k].userId = calls[c].userId
                   /\ trades[k].timestamp >= calls[c].startDate
                   => PointCount(calls'[c].trades, TradePoint, TradePoint(trades[k]))
                      = PointCount(InTimeframe(trades, c), TradePoint, TradePoint(trades[k]))
          /\ calls[c].pc = "selectSnapshots" /\ calls'[c].pc = "done"
             => LET result == calls'[c].result
                    shown == [k \in DOMAIN result |->
                                 [timestamp |-> result[k].timestamp,
                                  totalValue |-> result[k].totalValue]]
                    read == calls[c].trades
                    kept == InTimeframe(portfolioHistory, c)
                IN /\ Len(result) = Len(read) + Len(kept)
                   /\ \A k \in DOMAIN result :
                         /\ result[k].id = k
                         /\ result[k].userId = calls[c].userId
                         /\ k > 1 => result[k - 1].timestamp <= result[k].timestamp
                         /\ PointCount(shown, LAMBDA point : point, shown[k])
                            = PointCount(read, TradePoint, shown[k])
                              + PointCount(kept, SnapshotPoint, shown[k])
      ]_vars

\* a history has been returned that holds a trade, valuation snapshots and
\* two points of one timestamp
HistoryIsEveryPointInOrderWitness ==
    \E c \in Callers :
        /\ calls[c].op = "getPortfolioHistory"
        /\ calls[c].pc = "done"
        /\ Len(calls[c].trades) > 0
        /\ Len(calls[c].snapshots) > 0
        /\ Len(calls[c].result) = Len(calls[c].trades) + Len(calls[c].snapshots)
        /\ \E i, j \in DOMAIN calls[c].result :
              i < j /\ calls[c].result[i].timestamp = calls[c].result[j].timestamp

\* C29: on every portfolio tick a valuation is recorded for each known user:
\* when a run of the loop ends without a failure, every user that holds a
\* position has a point the loop recorded at the time of that run
EveryUserValuedOnTick ==
    [][/\ calls["loop"].pc \notin {"", "done"}
       /\ calls'["loop"].pc = "done"
       /\ ~ calls'["loop"].caught
       => \A userId \in Users :
             Len(GetUserPortfolio(userId)) > 0
             => \E k \in DOMAIN portfolioHistory' :
                   /\ portfolioHistory'[k].userId = userId
                   /\ portfolioHistory'[k].by = "loop"
                   /\ portfolioHistory'[k].timestamp = calls'["loop"].stamp
      ]_vars

\* C30: a storage failure during a run of the portfolio loop is caught inside
\* that run: the run ends there, the timer is neither cleared nor kept from
\* being armed, and the next tick can start a run again
FailureCaughtInsideTick ==
    /\ [][dbFaults' # dbFaults
          => /\ calls["loop"].pc \in {"getUserPortfolio", "checkHistory", "seed", "insert"}
             /\ calls'["loop"].pc = "done"
             /\ calls'["loop"].caught
             /\ portfolioUpdateInterval' = portfolioUpdateInterval
             /\ portfolioPc' = portfolioPc
             /\ portfolioTicks' = portfolioTicks
       ]_vars
    /\ [][portfolioUpdateInterval = "set" => portfolioUpdateInterval' = "set"]_vars
    /\ [](calls["loop"].caught
          => /\ calls["loop"].pc = "done"
             /\ portfolioPc = "awaiting" => ENABLED InitialValuationDone
             /\ portfolioUpdateInterval = "set" /\ portfolioTicks < MaxPortfolioTicks
                => ENABLED UpdatePortfolioValueCall)

\* after a failed run, a later tick has recorded its valuation
FailureCaughtInsideTickWitness ==
    /\ dbFaults > 0
    /\ portfolioUpdateInterval = "set"
    /\ ~ calls["loop"].initial
    /\ ~ calls["loop"].caught
    /\ calls["loop"].pc = "done"
    /\ \E k \in DOMAIN portfolioHistory :
          /\ portfolioHistory[k].by = "loop"
          /\ portfolioHistory[k].timestamp = calls["loop"].stamp
          /\ portfolioHistory[k].timestamp = now

\* the price the most recent earlier step of the walk stored for a symbol
LastStoredPrice(s) ==
    IF appended[s] = <<>> THEN InitialBasePrice[s] ELSE appended[s][Len(appended[s])]

\* C31: the walk loses no step: a tick derives the new price of a symbol from
\* the last price stored for that symbol, also when tick callbacks overlap
WalkLosesNoStep ==
    [][\A t \in TickIds :
          tick[t].pc = "perturb" /\ tick'[t].pc = "ai"
          => \E randomFactor \in RandomFactors :
                tick'[t].newPrice = NewPrice(LastStoredPrice(SymOf(t)), randomFactor)
      ]_vars

\* a request that was answered with the trade
Succeeded(c) == calls[c].route /\ calls[c].pc = "done" /\ calls[c].status = 200

\* C32: a successful POST /api/trades applies the trade to the position
\* exactly once: with no other request made, the holding of the symbol has
\* grown by the amount of a buy and shrunk by the amount of a sell
TradeAppliedOnce ==
    \A c \in DOMAIN calls :
        Succeeded(c) /\ (\A d \in DOMAIN calls \ {c} : calls[d].pc = "")
        => LET trade == calls[c].trade[1]
           IN Held(trade.userId, trade.symbol)
              = calls[c].held + (IF trade.type = "buy" THEN trade.amount ELSE - trade.amount)

\* what the successful requests of a set add to the balance of a user
RECURSIVE Settled(_, _)
Settled(requests, userId) ==
    IF requests = {} THEN 0
    ELSE LET c == CHOOSE d \in requests : TRUE
             trade == calls[c].trade[1]
         IN (IF Succeeded(c) /\ trade.userId = userId
             THEN IF trade.type = "buy" THEN - TradeTotal(trade) ELSE TradeTotal(trade)
             ELSE 0)
            + Settled(requests \ {c}, userId)

\* C33: the balance is conserved under concurrent requests: when every
\* request has been answered, the balance of the user is the balance at the
\* start minus the totals of the successful buys plus the totals of the
\* successful sells, and it is not negative
BalanceConserved ==
    (\A c \in DOMAIN calls : calls[c].pc \in {"", "done"})
    => /\ \E balance \in InitialBalances :
             users[TRACKED_USER] = balance + Settled(DOMAIN calls, TRACKED_USER)
       /\ users[TRACKED_USER] >= 0

\* the tables of the database
tables == <<trades, users, portfolio, portfolioHistory>>

\* C34: a trade request of an unknown user, or a buy whose amount times
\* price exceeds the balance, is rejected before it executes: it is answered
\* 404 or 400 when the user arrives, and from its arrival to its answer
\* trades, balance, positions and valuation history are unchanged
RejectedTradeChangesNothing ==
    [][\A c \in DOMAIN calls :
          /\ calls[c].pc = "" /\ calls'[c].pc = "getUser" => UNCHANGED tables
          /\ calls[c].pc = "getUser" /\ calls'[c].pc # "getUser"
             => LET trade == calls[c].trade[1]
                    unknown == trade.userId \notin DOMAIN users
                    short == /\ ~ unknown
                             /\ trade.type = "buy"
                             /\ trade.amount * trade.price > users[trade.userId]
                IN /\ unknown => calls'[c].pc = "done" /\ calls'[c].status = 404
                   /\ short => calls'[c].pc = "done" /\ calls'[c].status = 400
                   /\ unknown \/ short => UNCHANGED tables
          /\ calls'[c].status \in {400, 404} /\ calls[c].status = 0
             => calls[c].pc = "getUser"
      ]_vars

\* a buy has been answered 400 after another request took the balance, and
\* the tables are as that request left them
RejectedTradeChangesNothingWitness ==
    \E c, d \in DOMAIN calls :
        /\ calls[c].status = 400
        /\ calls[c].trade[1].amount * calls[c].trade[1].price > users[calls[c].userId]
        /\ Succeeded(d)
        /\ Len(trades) = 1

\* C35: no position has a negative quantity, and a sell is credited to the
\* balance only if the user held at least the sold amount of the symbol
SellsAreCovered ==
    /\ \A k \in DOMAIN portfolio : portfolio[k].amount >= 0
    /\ \A c \in DOMAIN calls :
          calls[c].tail /\ calls[c].trade[1].type = "sell"
          => calls[c].held >= calls[c].trade[1].amount

\* C36: there is at most one portfolio row per user and symbol, also when
\* two updatePortfolio calls interleave between their read and their write
OneRowPerUserAndSymbol ==
    \A j, k \in DOMAIN portfolio :
        portfolio[j].userId = portfolio[k].userId /\ portfolio[j].symbol = portfolio[k].symbol
        => j = k

\* C37: the hook keeps a live feed across symbol changes: when the symbol
\* changes while the component stays rendered, the old socket is closed and a
\* new connection is opened for the new symbol
SymbolChangeReconnects ==
    [][hook.rendered /\ hook'.rendered /\ hook'.symbol # hook.symbol
       => /\ hook.wsRef # 0
             => hook'.sockets[hook.wsRef].readyState \in {"CLOSING", "CLOSED"}
          /\ hook'.wsRef \notin DOMAIN hook.sockets
          /\ hook'.wsRef \in DOMAIN hook'.sockets
          /\ hook'.sockets[hook'.wsRef].symbol = hook'.symbol
      ]_vars

\* the close event of socket k is delivered in this step
CloseEventOf(k) ==
    /\ k \in DOMAIN hook.sockets
    /\ hook.sockets[k].readyState # "CLOSED"
    /\ hook'.sockets[k].readyState = "CLOSED"

\* C38: at most one reconnect timer is pending at any time; a socket close
\* while mounted schedules exactly one reconnect, due 3 seconds later; and
\* once the cleanup of the hook has run, no timer is pending or set and no
\* close event or timer opens a socket
ReconnectsAreGuarded ==
    /\ [](Cardinality(hook.timers) <= 1)
    /\ [][\A k \in 1..MaxSockets :
             CloseEventOf(k) /\ hook.mounted
             => \E t \in hook'.timers :
                   /\ t \notin hook.timers
                   /\ t.due = hook.clock + RECONNECT_DELAY
                   /\ hook'.timers = hook.timers \cup {t}
                   /\ hook'.reconnectTimeoutRef = t.id
         ]_vars
    /\ [][hook.cleaned
          => /\ hook.timers = {}
             /\ hook'.timers = {}
             /\ hook'.symbol = hook.symbol => Len(hook'.sockets) = Len(hook.sockets)
         ]_vars

\* a close while mounted scheduled a reconnect that opened a second socket
\* three seconds later; the cleanup has run since and the close event of
\* that socket has been delivered
ReconnectsAreGuardedWitness ==
    /\ hook.cleaned
    /\ hook.clock = RECONNECT_DELAY
    /\ hook.scheduled = 1
    /\ Len(hook.sockets) = 2
    /\ \A k \in DOMAIN hook.sockets : hook.sockets[k].readyState = "CLOSED"
    /\ hook.timers = {}

====
